---------------------------- MODULE Spec2Model ----------------------------
(***************************************************************************)
(* Model of the exoplanet-ai backend: the artifact loader (loader.py), the *)
(* inference service with its lock-guarded shared state (infer.py), the    *)
(* service singleton (deps.py) and the light-curve conditioning of         *)
(* build_bls_features (bls.py).                                            *)
(*                                                                         *)
(* Eight specifications share the module:                                   *)
(*   Spec       concurrent request threads, the pointer file and the       *)
(*              shared state;                                              *)
(*   SpecScore  one client, every payload, TIC and pointer text;           *)
(*   SpecHttp   one client against the HTTP endpoints, with automatic      *)
(*              fetching of missing light curves;                          *)
(*   SpecLoad   one client and every kind of bundle in the artifact        *)
(*              directory;                                                 *)
(*   SpecBLS    build_bls_features applied to bounded light-curve samples; *)
(*   SpecDerive build_bls_features for every best period, duration and     *)
(*              baseline of a small range;                                 *)
(*   SpecParity the odd/even depth statistic of bounded series;            *)
(*   SpecPower  the secondary statistic of bounded power spectra.          *)
(***************************************************************************)
EXTENDS Integers, Sequences, FiniteSets, TLC

VARIABLES
    latestExists,   \* model_dir/latest.txt exists
    latestText,     \* its content (a file name, or EmptyText)
    latestMtime,    \* its st_mtime
    writes,         \* number of pointer-file updates so far (bounds the run)
    service,        \* deps._service is set (the singleton is published)
    serviceLock,    \* owner of deps._service_lock (0: free)
    state,          \* InferenceService._state: 0 for None, else an index of heap
    heap,           \* every state dict load_state has returned, by identity
    lock,           \* owner of InferenceService._lock (0: free)
    cache,          \* interim_dir/features/TIC-<id>.parquet: the cached row or NoRow
    lightcurves,    \* processed_dir/lightcurves/TIC-<id>.parquet: the series or NoLightcurve
    pc,             \* per thread: position in its handler
    op,             \* per thread: the operation it runs
    ctor,           \* per thread: its refresh is the one of InferenceService.__init__
    force,          \* per thread: the force argument of its refresh
    bundle,         \* per thread: what load_state has built so far
    snap,           \* per thread: the state refresh() returned (the handler's local `state`)
    tic,            \* per thread: the tic_id of predict_by_tic, once read
    autoFetch,      \* per thread: predict_by_tic's local auto_fetch
    arg,            \* per thread: the arguments of the prediction call it has run
    last,           \* history: the last prediction a caller has taken
    result,         \* per thread: what the last call returned or raised
    forced,         \* number of forced startup refreshes so far (bounds the run)
    loadsSinceWrite,\* history: non-forced loads completed since the last pointer update
    sample,         \* SpecBLS: the raw light-curve sample given to build_bls_features
    outcome         \* SpecBLS: what build_bls_features returned or raised

svcVars == <<latestExists, latestText, latestMtime, writes, service, serviceLock, state,
             heap, lock, cache, lightcurves, pc, op, ctor, force, bundle, snap, tic,
             autoFetch, arg, last, result, forced, loadsSinceWrite>>
blsVars == <<sample, outcome>>
vars == <<svcVars, blsVars>>

-----------------------------------------------------------------------------
(* Bounds *)

NThreads == 2
MaxWrites == 1
MaxForced == 1

Threads == 1..NThreads

-----------------------------------------------------------------------------
(* Floating-point values: a finite number (scaled integer), NaN, +inf, -inf; *)
(* Null is Python's None / JSON null.                                        *)

Fin(x) == [k |-> "fin", v |-> x]
NaN == [k |-> "nan", v |-> 0]
PosInf == [k |-> "inf", v |-> 0]
NegInf == [k |-> "-inf", v |-> 0]
Null == [k |-> "null", v |-> 0]

IsFinite(x) == x.k = "fin"
IsNaN(x) == x.k = "nan"
IsInf(x) == x.k \in {"inf", "-inf"}

-----------------------------------------------------------------------------
(* Exceptions: a type and the exception it was raised from (__cause__).      *)

NoCause == [type |-> "none"]
Exc(type, cause) == [type |-> type, cause |-> cause]

-----------------------------------------------------------------------------
(* The artifact directory.  A file name is kept in its parts, since the      *)
(* loader decides on the prefix, the version suffix and the extension.       *)

File(prefix, ver, ext) == [prefix |-> prefix, ver |-> ver, ext |-> ext]
EmptyText == File("", "", "")
NoFile == File("-", "-", "-")

\* The files present in model_dir (latest.txt apart).  v2 is named by two
\* model files that share its companions; v4 has an unknown prefix, v5 no model
\* file, v6 no feature-name file, v7 an empty feature-name list; the pickle of
\* v8 holds a wrapper object, not a Booster; the feature-name file of v9 is an
\* object without the feature_names key, that of v12 a JSON string.
ModelDirFiles ==
    { File("model_iso_", "v1", ".pkl"), File("feature_names_", "v1", ".json"),
      File("scaler_", "v1", ".pkl"),
      File("model_xgb_", "v2", ".json"), File("feature_names_", "v2", ".json"),
      File("scaler_", "v2", ".pkl"), File("calibrator_", "v2", ".pkl"),
      File("model_iso_", "v2", ".pkl"),
      File("model_xgb_", "v3", ".pkl"), File("feature_names_", "v3", ".json"),
      File("model_rf_", "v4", ".pkl"), File("feature_names_", "v4", ".json"),
      File("feature_names_", "v5", ".json"),
      File("model_iso_", "v6", ".pkl"),
      File("model_xgb_", "v7", ".ubj"), File("feature_names_", "v7", ".json"),
      File("model_xgb_", "v8", ".pkl"), File("feature_names_", "v8", ".json"),
      File("model_iso_", "v9", ".pkl"), File("feature_names_", "v9", ".json"),
      File("model_xgb_", "v10", ".bin"), File("feature_names_", "v10", ".json"),
      File("calibrator_", "v10", ".pkl"),
      File("model_xgb_", "v11", ".ubj"), File("feature_names_", "v11", ".json"),
      File("scaler_", "v11", ".pkl"),
      File("model_iso_", "v12", ".pkl"), File("feature_names_", "v12", ".json") }

\* What the pointer file may be rewritten to hold.
PointerTexts ==
    { File("model_iso_", "v1", ".pkl"), File("model_xgb_", "v2", ".json"),
      File("model_xgb_", "v3", ".pkl"), File("model_iso_", "v5", ".pkl"),
      EmptyText }

\* A JSON document: an array of strings, an object with one key holding an
\* array of strings, or a string.
JsonArray(items) == [type |-> "array", key |-> "", items |-> items]
JsonObject(key, items) == [type |-> "object", key |-> key, items |-> items]
JsonString == [type |-> "string", key |-> "", items |-> <<>>]

\* json.load of a feature-name file.
FeatureNamesJson(f) ==
    CASE f.ver = "v1" -> JsonArray(<<"period_days", "depth_ppm", "snr", "rms_before">>)
      [] f.ver = "v2" ->
            JsonObject("feature_names", <<"snr", "period_days", "tmag", "duty_cycle">>)
      [] f.ver = "v3" -> JsonArray(<<"depth_ppm", "snr">>)
      [] f.ver = "v7" -> JsonArray(<<>>)
      [] f.ver = "v9" -> JsonObject("names", <<"period_days", "snr">>)
      [] f.ver = "v10" -> JsonObject("feature_names", <<"snr", "n_transits">>)
      [] f.ver = "v12" -> JsonString
      [] OTHER -> JsonArray(<<"period_days">>)

Failed(type) == [ok |-> FALSE, exc |-> Exc(type, NoCause)]

\* Fault: the array under any key of an object is taken as the name list.
_load_feature_names_any_key(path) ==
    IF FeatureNamesJson(path).type = "string" THEN Failed("ValueError")
    ELSE [ok |-> TRUE, names |-> FeatureNamesJson(path).items]

\* loader._load_feature_names: the feature_names entry of an object ([] if it
\* has none), the items of an array, ValueError for anything else.
_load_feature_names(path) ==
    IF FeatureNamesJson(path).type = "object"
    THEN [ok |-> TRUE,
          names |-> IF FeatureNamesJson(path).key = "feature_names"
                    THEN FeatureNamesJson(path).items ELSE <<>>]
    ELSE IF FeatureNamesJson(path).type = "array"
    THEN [ok |-> TRUE, names |-> FeatureNamesJson(path).items]
    ELSE Failed("ValueError")

\* An object unpickled / deserialized by one load_state call.
Obj(f, serial) == [file |-> f, load |-> serial]
None == Obj(NoFile, 0)

\* joblib.load(path) if path.exists() else None
LoadOptional(path, serial) == IF path \in ModelDirFiles THEN Obj(path, serial) ELSE None

\* The extensions of a natively serialized booster (loader.py:75).
NativeSuffixes == {".json", ".ubj", ".bin"}

\* The class of the object joblib.load gives for a pickled model file.
Unpickled(f) ==
    IF f.prefix = "model_iso_" THEN "IsolationForest"
    ELSE IF f.ver = "v8" THEN "Wrapper"
    ELSE "Booster"

\* Fault: a pickled object of any class is taken as the model.
ModelClassUnchecked(f) ==
    IF f.prefix = "model_xgb_" THEN "Booster" ELSE Unpickled(f)

\* The class of the object load_state takes for the model (loader.py:57 and
\* :75-82): Booster.load_model on a native file, else the unpickled object.
ModelClass(f) ==
    IF f.prefix = "model_xgb_" /\ f.ext \in NativeSuffixes THEN "Booster"
    ELSE Unpickled(f)

\* loader.load_state, lines 88-93 and 95-105: the feature names, and the parts
\* of the bundle.
LoadFeatures(name, serial, feature_path, supervised, names) ==
    IF ~names.ok THEN names
    ELSE IF names.names = <<>> THEN Failed("ValueError")
    ELSE [ok |-> TRUE,
          mode |-> IF supervised THEN "supervised" ELSE "one_class",
          feature_names |-> names.names,
          model |-> Obj(name, serial),
          scaler |-> LoadOptional(File("scaler_", name.ver, ".pkl"), serial),
          calibrator |-> IF supervised
                         THEN LoadOptional(File("calibrator_", name.ver, ".pkl"), serial)
                         ELSE None,
          xgb |-> supervised,
          latest |-> name,
          feature_names_version |-> feature_path.ver]

\* loader.load_state, lines 47-93: from the text read out of latest.txt to the
\* loaded parts of the bundle, or the exception raised.
LoadBundle(name, serial) ==
    LET feature_path == File("feature_names_", name.ver, ".json")
        supervised == name.prefix = "model_xgb_"
    IN  IF name \notin ModelDirFiles THEN Failed("FileNotFoundError")
        ELSE IF name.prefix \notin {"model_iso_", "model_xgb_"} THEN Failed("ValueError")
        ELSE IF supervised /\ ModelClass(name) # "Booster" THEN Failed("TypeError")
        ELSE IF feature_path \notin ModelDirFiles THEN Failed("FileNotFoundError")
        ELSE LoadFeatures(name, serial, feature_path, supervised,
                          _load_feature_names(feature_path))

\* loader.load_state, lines 95-108: the state dict, stamped with the pointer
\* file's modification time as read at the end of the load.
MakeState(b, mtime) ==
    [mode |-> b.mode, feature_names |-> b.feature_names, model |-> b.model,
     scaler |-> b.scaler, calibrator |-> b.calibrator, xgb |-> b.xgb,
     latest |-> b.latest, feature_names_version |-> b.feature_names_version,
     latest_mtime |-> mtime]

NoBundle == [ok |-> FALSE, exc |-> NoCause]

-----------------------------------------------------------------------------
(* Light-curve samples (bls.py).  A sample is run-length encoded: a block    *)
(* stands for n consecutive entries of the input arrays that share time      *)
(* finiteness, flux and flux_err; has_err says whether flux_err was given.   *)
(* fit is what the box-least-squares search and its statistics give for the  *)
(* conditioned series (an external function of the sample).                  *)

MIN_SAMPLES == 200

Block(n, time, flux, err) == [n |-> n, time |-> time, flux |-> flux, err |-> err]

RECURSIVE Size(_)
\* time_arr.size
Size(blocks) == IF blocks = <<>> THEN 0 ELSE Head(blocks).n + Size(Tail(blocks))

\* bls.py:79-85: drop the entries whose time, flux or flux_err is not finite.
FiniteFilter(blocks, has_err) ==
    SelectSeq(blocks, LAMBDA b : IsFinite(b.time) /\ IsFinite(b.flux)
                                 /\ (has_err => IsFinite(b.err)))

RECURSIVE InsertByTime(_, _)
InsertByTime(b, sorted) ==
    IF sorted = <<>> THEN <<b>>
    ELSE IF b.time.v < Head(sorted).time.v THEN <<b>> \o sorted
    ELSE <<Head(sorted)>> \o InsertByTime(b, Tail(sorted))

RECURSIVE SortByTime(_)
\* bls.py:90-94: order = argsort(time); every array is taken in that order.
SortByTime(blocks) ==
    IF blocks = <<>> THEN <<>>
    ELSE InsertByTime(Head(blocks), SortByTime(Tail(blocks)))

RECURSIVE Sum(_)
Sum(ns) == IF ns = <<>> THEN 0 ELSE Head(ns) + Sum(Tail(ns))

\* How many entries of a run-length encoded list are below / not above x.
CountLt(items, x) == Sum([i \in DOMAIN items |-> IF items[i].x < x THEN items[i].n ELSE 0])
CountLe(items, x) == Sum([i \in DOMAIN items |-> IF items[i].x <= x THEN items[i].n ELSE 0])

\* The k-th smallest (k from 1) of a run-length encoded list of numbers.
Kth(items, k) ==
    CHOOSE x \in {items[i].x : i \in DOMAIN items} :
        CountLt(items, x) < k /\ k <= CountLe(items, x)

\* Twice the median of n numbers: the middle value, or the mean of the two
\* middle values.
MedianOf(items, n) ==
    IF n % 2 = 1 THEN 2 * Kth(items, (n + 1) \div 2)
    ELSE Kth(items, n \div 2) + Kth(items, n \div 2 + 1)

\* Twice np.median.
Median2(items) == MedianOf(items, Sum([i \in DOMAIN items |-> items[i].n]))

Abs(x) == IF x < 0 THEN -x ELSE x

FluxItems(blocks) == [i \in DOMAIN blocks |-> [n |-> blocks[i].n, x |-> blocks[i].flux.v]]

\* Twice |flux - median| of each entry.
DeviationsFrom(blocks, med2) ==
    [i \in DOMAIN blocks |-> [n |-> blocks[i].n, x |-> Abs(2 * blocks[i].flux.v - med2)]]

Deviations2(blocks) == DeviationsFrom(blocks, Median2(FluxItems(blocks)))

\* bls._mad, times four.
Mad4(blocks) == Median2(Deviations2(blocks))

\* The entries a mask keeps, in their order.
Masked(blocks, keep) ==
    SelectSeq([i \in DOMAIN blocks |-> [b |-> blocks[i], keep |-> i \in keep]],
              LAMBDA e : e.keep)

\* Fault: an entry on the threshold is removed.
ClipMaskStrict(blocks, dev, mad4) ==
    {i \in DOMAIN blocks : 20000 * dev[i].x < 5 * 14826 * mad4}

\* bls.py:41-46: the entries with |flux - median| <= 5.0 * 1.4826 * mad.
ClipMask(blocks, dev, mad4) ==
    {i \in DOMAIN blocks : 20000 * dev[i].x <= 5 * 14826 * mad4}

ClipResult(blocks, kept) ==
    [blocks |-> [j \in DOMAIN kept |-> kept[j].b],
     num |-> Size([j \in DOMAIN kept |-> kept[j].b]), den |-> Size(blocks)]

\* bls.py:39-46, given 4 * mad.
ClipWithMad(blocks, mad4) ==
    IF mad4 = 0 THEN [blocks |-> blocks, num |-> 1, den |-> 1]
    ELSE ClipResult(blocks, Masked(blocks, ClipMask(blocks, Deviations2(blocks), mad4)))

\* bls._five_sigma_clip: with MAD = 0 nothing is removed; otherwise the entries
\* within the threshold are kept.  The kept fraction is count / len, as the
\* pair (num, den).
_five_sigma_clip(blocks) == ClipWithMad(blocks, Mad4(blocks))

\* Fault: the size checks reject exactly MIN_SAMPLES entries too.
TooFewOrEqual(size) == size <= MIN_SAMPLES

\* bls.py:87 and :97: the two size checks.
TooFew(size) == size < MIN_SAMPLES

CanonicalKeys ==
    {"period_days", "duration_hours", "depth_ppm", "snr", "t0_btjd", "duty_cycle",
     "n_transits", "odd_even_depth_ratio", "secondary_snr", "in_vs_out_rms",
     "rms_before", "rms_after", "data_fraction_kept"}
META_FEATURE_KEYS == {"tmag", "teff", "rad", "crowdsap", "contratio"}
SummaryKeys == {"period_days", "duration_hours", "depth_ppm", "snr", "t0_btjd"}

\* bls.py:162: time_arr[-1] - time_arr[0] of the clipped series, 0 if it is empty.
baseline_days(blocks) ==
    IF blocks = <<>> THEN 0 ELSE blocks[Len(blocks)].time.v - blocks[1].time.v

\* Fault: the number of transits is not raised to 1.
n_transits_unclamped(baseline, best_period) ==
    IF best_period > 0 THEN Fin((1000 * baseline) \div best_period) ELSE Fin(0)

\* bls.py:163-164, in thousandths: baseline / period for a positive period,
\* else 0; then max(n_transits, 1.0).
n_transits(baseline, best_period) ==
    IF best_period > 0 /\ (1000 * baseline) \div best_period > 1000
    THEN Fin((1000 * baseline) \div best_period)
    ELSE Fin(1000)

\* bls.py:189, in thousandths: duration / period for a positive period, else 0.
\* The duration is in hours, the period in days.
duty_cycle(best_duration, best_period) ==
    IF best_period > 0 THEN Fin((1000 * best_duration) \div (24 * best_period))
    ELSE Fin(0)

\* bls.py:191-210: the feature mapping; the kept fraction in thousandths.
Features(fit, clip, meta) ==
    [key \in CanonicalKeys \cup (META_FEATURE_KEYS \cap DOMAIN meta) |->
        IF key = "data_fraction_kept" THEN Fin((1000 * clip.num) \div clip.den)
        ELSE IF key = "duty_cycle"
        THEN duty_cycle(fit.duration_hours.v, fit.period_days.v)
        ELSE IF key = "n_transits"
        THEN n_transits(baseline_days(clip.blocks), fit.period_days.v)
        ELSE IF key \in META_FEATURE_KEYS THEN meta[key]
        ELSE fit[key]]

Raised(type) == [ok |-> FALSE, exc |-> Exc(type, NoCause)]

\* bls.py:191-221: the result.
BuildResult(features, clip) ==
    [ok |-> TRUE,
     features |-> features,
     summary |-> [key \in SummaryKeys |-> features[key]],
     warnings |-> IF 10 * clip.num < 8 * clip.den
                  THEN <<"aggressive_clipping">> ELSE <<>>]

\* bls.py:97-221: after clipping.
BuildClipped(s, meta, clip) ==
    IF TooFew(Size(clip.blocks)) THEN Raised("InsufficientDataError")
    ELSE IF Median2(FluxItems(clip.blocks)) = 0 THEN Raised("ValueError")
    ELSE IF ~s.fit.ok THEN Raised("ValueError")
    ELSE BuildResult(Features(s.fit, clip, meta), clip)

\* bls.py:87-221: after the non-finite entries are dropped.
BuildFinite(s, meta, finite) ==
    IF TooFew(Size(finite)) THEN Raised("InsufficientDataError")
    ELSE BuildClipped(s, meta, _five_sigma_clip(SortByTime(finite)))

\* bls.build_bls_features
build_bls_features(s, meta) == BuildFinite(s, meta, FiniteFilter(s.blocks, s.has_err))

-----------------------------------------------------------------------------
(* The inputs of the service specification.                                  *)

\* What the period search and the statistics derived from it give (the best
\* period in days, the best duration in hours), before duty_cycle and
\* n_transits are derived: a clean
\* transit, a fit whose epoch precedes every sample and whose depth error is
\* zero (rms_before is NaN, snr infinite), and a search that raises.
FitTransit ==
    [ok |-> TRUE, period_days |-> Fin(35), duration_hours |-> Fin(12),
     depth_ppm |-> Fin(10000), snr |-> Fin(25), t0_btjd |-> Fin(17),
     odd_even_depth_ratio |-> Fin(1),
     secondary_snr |-> Fin(0), in_vs_out_rms |-> Fin(3), rms_before |-> Fin(2),
     rms_after |-> Fin(2)]
FitEdge ==
    [FitTransit EXCEPT !.snr = PosInf, !.rms_before = NaN, !.depth_ppm = NegInf]
FitRaises == [ok |-> FALSE]

Lc(blocks, fit) == [blocks |-> blocks, has_err |-> FALSE, fit |-> fit]

LcGood == Lc(<<Block(200, Fin(1), Fin(10), NaN)>>, FitTransit)
LcEdge == Lc(<<Block(200, Fin(1), Fin(10), NaN)>>, FitEdge)
LcShort == Lc(<<Block(199, Fin(1), Fin(10), NaN), Block(1, Fin(2), NaN, NaN)>>, FitTransit)
LcZero == Lc(<<Block(200, Fin(1), Fin(0), NaN)>>, FitTransit)
LcClipped ==
    Lc(<<Block(110, Fin(1), Fin(10), NaN), Block(60, Fin(2), Fin(90), NaN),
         Block(100, Fin(3), Fin(12), NaN)>>, FitTransit)
LcRaises == Lc(<<Block(200, Fin(1), Fin(10), NaN)>>, FitRaises)

\* The payloads given to predict_from_arrays.
ArrayInputs == {LcGood, LcEdge, LcShort, LcZero, LcRaises}

NoMeta == [key \in {} |-> Null]
Metas == {NoMeta, [key \in {"tmag"} |-> Fin(9)], [key \in {"tmag"} |-> PosInf]}

\* processed_dir/lightcurves as the service finds it: TIC 1, TIC 2 and TIC 4
\* have a parquet file (TIC 4 a short one), TIC 3 has none.
TicIds == {1, 2, 3}
Catalog == TicIds \cup {4}
NoLightcurve == Lc(<<>>, FitRaises)
LightcurveStore(tic_id) ==
    CASE tic_id = 1 -> LcClipped
      [] tic_id = 2 -> LcZero
      [] tic_id = 4 -> LcShort
      [] OTHER -> NoLightcurve

\* What lc_store.fetch_lightcurve_from_mast can store: a series of at least
\* 200 finite rows (lc_store.py:116-121).
MastLightcurves == {LcClipped, LcZero}

\* config.Settings.auto_fetch_missing (default)
AutoFetchMissing == FALSE

\* A cached feature row, or none.
NoRow == [key \in {} |-> Null]
\* A row left in the cache by an earlier run of the service.
StaleRow == [key \in {"period_days", "snr", "tmag"} |->
                CASE key = "period_days" -> Fin(20)
                  [] key = "snr" -> NaN
                  [] OTHER -> PosInf]

-----------------------------------------------------------------------------
(* Scoring (infer.py).  The scaler, the models and the calibrator are        *)
(* external objects: each is a fixed function of the loaded file and of its  *)
(* input.  Scores are in hundredths.                                         *)

\* Fault: a name the vector lacks is filled with 0.
AlignZeroFilled(features, names) ==
    [i \in DOMAIN names |->
        IF names[i] \in DOMAIN features THEN features[names[i]] ELSE Fin(0)]

\* features.reindex(state['feature_names']).astype(float)
Align(features, names) ==
    [i \in DOMAIN names |->
        IF names[i] \in DOMAIN features THEN features[names[i]] ELSE NaN]

\* scaler.transform
Transform(scaler, X) ==
    [i \in DOMAIN X |-> IF IsFinite(X[i]) THEN Fin(2 * X[i].v + 1) ELSE X[i]]

Checksum(X) == Sum([i \in DOMAIN X |-> IF IsFinite(X[i]) THEN i * X[i].v ELSE i])

Seed(obj) == CASE obj.file.ver = "v1" -> 1 [] obj.file.ver = "v2" -> 2 [] OTHER -> 3

\* IsolationForest.decision_function
decision_function(model, X) == ((3 * Checksum(X) + 51 * Seed(model)) % 201) - 100
\* Booster.predict
predict(model, X) == ((Checksum(X) + Seed(model)) % 161) - 30
\* calibrator.predict_proba(X)[0, 1]
predict_proba(calibrator, X) == (11 * Checksum(X) + Seed(calibrator)) % 101

\* np.clip
Clip(x, lo, hi) == IF x < lo THEN lo ELSE IF x > hi THEN hi ELSE x

\* infer.py:194-198
ScaledInput(st, X) == IF st.scaler # None THEN Transform(st.scaler, X) ELSE X

\* Fault: the decision function's output is clipped without the 0.5 offset.
ScoreOfNoOffset(st, X_model) ==
    IF st.mode = "one_class"
    THEN Clip(decision_function(st.model, X_model), 0, 100)
    ELSE Clip(IF st.calibrator # None THEN predict_proba(st.calibrator, X_model)
              ELSE predict(st.model, X_model), 0, 100)

\* infer.py:200-217
ScoreOf(st, X_model) ==
    IF st.mode = "one_class"
    THEN Clip(decision_function(st.model, X_model) + 50, 0, 100)
    ELSE LET base_score == IF st.calibrator # None
                           THEN predict_proba(st.calibrator, X_model)
                           ELSE predict(st.model, X_model)
         IN  Clip(base_score, 0, 100)

\* infer.py:200-217
IsProbability(st) == st.mode # "one_class"

\* InferenceService._serialize_series: pd.isna(value) -> None
_serialize_series(series) ==
    [key \in DOMAIN series |-> IF IsNaN(series[key]) THEN Null ELSE series[key]]

\* InferenceService._serialize_summary: None, NaN and +-inf -> None
_serialize_summary(summary) ==
    [key \in DOMAIN summary |->
        IF summary[key] = Null \/ IsNaN(summary[key]) \/ IsInf(summary[key])
        THEN Null ELSE summary[key]]

\* Fault: the summary of a cached row holds only the columns the row has.
_summary_of_present(features) ==
    [key \in SummaryKeys \cap DOMAIN features |-> features[key]]

\* InferenceService._summary_from_features
_summary_from_features(features) ==
    [key \in SummaryKeys |-> IF key \in DOMAIN features THEN features[key] ELSE NaN]

\* str(settings.model_dir)
ModelDir == "model_dir"

\* utils_time: the monotonic clock in milliseconds (it does not advance within
\* a step of the model) and the time elapsed since a reading of it.
monotonic_ms == 0
elapsed_ms(start_ms) == IF monotonic_ms - start_ms > 0 THEN monotonic_ms - start_ms ELSE 0

\* infer.py:200-254, given the model input.
Response(features, summary, warnings, tic_id, st, rep, cache_hit, auto_fetch, X, X_model) ==
        IF st.mode # "one_class" /\ ~st.xgb
        THEN [kind |-> "error", exc |-> Exc("RuntimeError", NoCause)]
        ELSE [kind |-> "prediction",
              tic_id |-> tic_id,
              mode |-> rep.mode,
              is_probability |-> IsProbability(st),
              score |-> ScoreOf(st, X_model),
              summary |-> _serialize_summary(summary),
              features |-> _serialize_series(features),
              warnings |-> warnings,
              meta |-> [artifact_dir |-> ModelDir,
                        feature_names_version |-> rep.feature_names_version,
                        runtime_ms |-> elapsed_ms(monotonic_ms),
                        cache_hit |-> cache_hit, auto_fetch |-> auto_fetch],
              used |-> [feature_names |-> st.feature_names, model |-> st.model,
                        scaler |-> st.scaler, calibrator |-> st.calibrator,
                        x |-> X, x_model |-> X_model, raw |-> features]]

\* infer.py:194-254, given the aligned row X.
ScoreAligned(features, summary, warnings, tic_id, st, rep, cache_hit, auto_fetch, X) ==
    Response(features, summary, warnings, tic_id, st, rep, cache_hit, auto_fetch,
             X, ScaledInput(st, X))

\* InferenceService._score: st scores the features, rep is the state the
\* response's mode and meta are read from (both are the local `state`).
_score(features, summary, warnings, tic_id, st, rep, cache_hit, auto_fetch) ==
    ScoreAligned(features, summary, warnings, tic_id, st, rep, cache_hit, auto_fetch,
                 Align(features, st.feature_names))

\* except InsufficientDataError: raise / except Exception as exc: raise
\* FeatureExtractionError(str(exc)) from exc  (infer.py:170-174 and :107-111).
Reraise(r) ==
    IF r.ok \/ r.exc.type = "InsufficientDataError" THEN r
    ELSE [ok |-> FALSE, exc |-> Exc("FeatureExtractionError", r.exc)]

\* InferenceService._compute_features
_compute_features(lc, meta) == Reraise(build_bls_features(lc, meta))

\* predict_by_tic, lines 101-111: the handler's own try/except around
\* _compute_features.
ComputeForTic(lc) == Reraise(_compute_features(lc, NoMeta))

\* Fault: only the summary columns are written to the cache.
write_cached_summary(features) ==
    [key \in DOMAIN features \cap SummaryKeys |-> features[key]]

\* Fault: the feature cache is never read.
read_nothing(row) == NoRow

\* lc_store.write_cached_features / read_cached_features: the row of float
\* columns written is the row read back.
write_cached_features(features) == [key \in DOMAIN features |-> features[key]]
read_cached_features(row) == row

\* InferenceService.version_info
version_info(st) ==
    [kind |-> "version", mode |-> st.mode, model |-> st.latest,
     is_probability |-> st.mode = "supervised"]

\* Fault: has_calibrator is derived from the mode, not from the loaded state.
model_info_by_mode(st) ==
    [kind |-> "model_info", mode |-> st.mode, latest |-> st.latest,
     feature_names_version |-> st.feature_names_version,
     feature_count |-> Len(st.feature_names),
     has_scaler |-> st.scaler # None, has_calibrator |-> st.mode = "supervised",
     is_probability |-> st.mode = "supervised"]

\* InferenceService.model_info
model_info(st) ==
    [kind |-> "model_info", mode |-> st.mode, latest |-> st.latest,
     feature_names_version |-> st.feature_names_version,
     feature_count |-> Len(st.feature_names),
     has_scaler |-> st.scaler # None, has_calibrator |-> st.calibrator # None,
     is_probability |-> st.mode = "supervised"]

-----------------------------------------------------------------------------
(* The service: request threads, the singleton, refresh and the handlers.    *)
(* A step of a thread runs the code up to its next access of something       *)
(* shared (a lock, the pointer file, the feature cache).                     *)

Ops == {"startup", "version_info", "model_info", "predict_by_tic", "predict_from_arrays"}

NoResult == [kind |-> "none"]

\* The arguments of a prediction call: the tic_id of predict_by_tic (0 for
\* predict_from_arrays) and the arrays and meta of predict_from_arrays.
Args(tic_id, lc, meta) == [tic_id |-> tic_id, lc |-> lc, meta |-> meta]
NoArg == Args(0, NoLightcurve, NoMeta)

\* What the history keeps of a prediction: the call, the load_state call whose
\* state scored it, whether the features came from the cache, the score and
\* the warnings.
Taken(o, a, res) ==
    [op |-> o, arg |-> a, load |-> res.used.model.load,
     cache_hit |-> res.meta.cache_hit, score |-> res.score,
     warnings |-> res.warnings]
NoneTaken == [op |-> "none"]

\* The history after the caller of thread t has taken its result.
Observed(t) ==
    IF result[t].kind = "prediction" THEN Taken(op[t], arg[t], result[t]) ELSE last
Error(exc) == [kind |-> "error", exc |-> exc]
LoadPcs == {"ld_read", "ld_finish"}

\* Fault: a reload also on an unchanged modification time.
ShouldLoadOnEqual(forceArg, current_mtime) ==
    forceArg \/ state = 0 \/ current_mtime >= heap[state].latest_mtime

\* infer.py:47: the reload decision.
ShouldLoad(forceArg, current_mtime) ==
    forceArg \/ state = 0 \/ current_mtime > heap[state].latest_mtime

\* The state a handler scores with: its local `state` (infer.py:126, :155).
ScoredState(t) == heap[snap[t]]
\* Fault: the response's mode and version are read from self._state when the
\* response is built, not from the handler's local `state`.
SharedState(t) == heap[state]

\* The state _score reads the response's mode and version from (infer.py:225, :233).
ReportedState(t) == heap[snap[t]]

envVars == <<latestExists, latestText, latestMtime, writes>>

\* A request arrives and main.py resolves Depends(get_inference_service):
\* deps.py:19, the unlocked test of the singleton.  With the singleton set the
\* handler runs and calls self.refresh(), forced only from _startup.
Start(t) ==
    /\ pc[t] = "idle"
    /\ \E o \in Ops :
        /\ o = "startup" => forced < MaxForced
        /\ op' = [op EXCEPT ![t] = o]
        /\ forced' = IF o = "startup" THEN forced + 1 ELSE forced
        /\ force' = [force EXCEPT ![t] = (o = "startup")]
    /\ pc' = [pc EXCEPT ![t] = IF service THEN "rf_lock" ELSE "gs_lock"]
    /\ UNCHANGED <<envVars, service, serviceLock, state, heap, lock, cache, ctor, bundle,
                   snap, tic, arg, last, result, loadsSinceWrite,
                   lightcurves, autoFetch, blsVars>>

\* Fault: the singleton is not tested again under _service_lock.
GetServiceUntested(t) ==
    /\ pc[t] = "gs_lock"
    /\ serviceLock = 0
    /\ serviceLock' = t
    /\ state' = 0
    /\ ctor' = [ctor EXCEPT ![t] = TRUE]
    /\ force' = [force EXCEPT ![t] = TRUE]
    /\ pc' = [pc EXCEPT ![t] = "rf_lock"]
    /\ UNCHANGED <<envVars, service, heap, lock, cache, op, bundle, snap, tic, arg, last,
                   result, forced, loadsSinceWrite, lightcurves, autoFetch, blsVars>>

\* deps.py:20-22 and InferenceService.__init__ (infer.py:32-35): under
\* _service_lock the test is repeated; if the singleton is still unset a new
\* instance with _state = None starts refresh(force=True).
GetService(t) ==
    /\ pc[t] = "gs_lock"
    /\ serviceLock = 0
    /\ IF service
       THEN UNCHANGED <<serviceLock, state, ctor, force>>
       ELSE /\ serviceLock' = t
            /\ state' = 0
            /\ ctor' = [ctor EXCEPT ![t] = TRUE]
            /\ force' = [force EXCEPT ![t] = TRUE]
    /\ pc' = [pc EXCEPT ![t] = "rf_lock"]
    /\ UNCHANGED <<envVars, service, heap, lock, cache, op, bundle, snap, tic, arg, last,
                   result,
                   forced, loadsSinceWrite, lightcurves, autoFetch, blsVars>>

\* Where a handler goes once refresh() has returned its state.
AfterRefresh(o) ==
    CASE o = "predict_by_tic" -> "pt_read"
      [] o = "predict_from_arrays" -> "pa_score"
      [] OTHER -> "done"

\* What a handler that only reads the state returns (infer.py:52-72); _startup
\* returns nothing.
InfoResult(o, st) ==
    CASE o = "version_info" -> version_info(st)
      [] o = "model_info" -> model_info(st)
      [] o = "startup" -> [kind |-> "started"]
      [] OTHER -> NoResult

\* Fault: the handler keeps self._lock after refresh() has returned.
RefreshReturnsHolding(t, st, dict) ==
    /\ lock' = t
    /\ bundle' = [bundle EXCEPT ![t] = NoBundle]
    /\ snap' = [snap EXCEPT ![t] = IF AfterRefresh(op[t]) = "done" THEN 0 ELSE st]
    /\ pc' = [pc EXCEPT ![t] = AfterRefresh(op[t])]
    /\ result' = [result EXCEPT ![t] = InfoResult(op[t], dict)]
    /\ force' = [force EXCEPT ![t] = FALSE]
    /\ ctor' = [ctor EXCEPT ![t] = FALSE]
    /\ service' = TRUE
    /\ serviceLock' = IF ctor[t] THEN 0 ELSE serviceLock

\* refresh() returns self._state (infer.py:49-50): st, the dict `dict`, and
\* releases self._lock.  Returning into __init__ completes the construction:
\* deps.py:22-23 publishes the instance and releases _service_lock, and the
\* handler then makes its own refresh() call.
RefreshReturns(t, st, dict) ==
    /\ lock' = 0
    /\ bundle' = [bundle EXCEPT ![t] = NoBundle]
    /\ IF ctor[t]
       THEN /\ service' = TRUE
            /\ serviceLock' = 0
            /\ ctor' = [ctor EXCEPT ![t] = FALSE]
            /\ force' = [force EXCEPT ![t] = (op[t] = "startup")]
            /\ pc' = [pc EXCEPT ![t] = "rf_lock"]
            /\ UNCHANGED <<snap, result>>
       ELSE /\ snap' = [snap EXCEPT ![t] =
                          IF AfterRefresh(op[t]) = "done" THEN 0 ELSE st]
            /\ pc' = [pc EXCEPT ![t] = AfterRefresh(op[t])]
            /\ result' = [result EXCEPT ![t] = InfoResult(op[t], dict)]
            /\ force' = [force EXCEPT ![t] = FALSE]
            /\ UNCHANGED <<service, serviceLock, ctor>>

\* Fault: a constructor whose load failed still publishes the instance.
RefreshRaisesPublishing(t, exc) ==
    /\ lock' = 0
    /\ serviceLock' = IF ctor[t] THEN 0 ELSE serviceLock
    /\ service' = (service \/ ctor[t])
    /\ ctor' = [ctor EXCEPT ![t] = FALSE]
    /\ force' = [force EXCEPT ![t] = FALSE]
    /\ result' = [result EXCEPT ![t] = Error(exc)]
    /\ bundle' = [bundle EXCEPT ![t] = NoBundle]
    /\ pc' = [pc EXCEPT ![t] = "done"]
    /\ UNCHANGED <<envVars, state, heap, cache, op, snap, tic, arg, last, forced,
                   loadsSinceWrite, lightcurves, autoFetch, blsVars>>

\* An exception leaves refresh: the with-block releases self._lock; out of
\* __init__ it also leaves get_inference_service, which releases _service_lock
\* with _service still unset.  The caller gets the exception.
RefreshRaises(t, exc) ==
    /\ lock' = 0
    /\ serviceLock' = IF ctor[t] THEN 0 ELSE serviceLock
    /\ ctor' = [ctor EXCEPT ![t] = FALSE]
    /\ force' = [force EXCEPT ![t] = FALSE]
    /\ result' = [result EXCEPT ![t] = Error(exc)]
    /\ bundle' = [bundle EXCEPT ![t] = NoBundle]
    /\ pc' = [pc EXCEPT ![t] = "done"]
    /\ UNCHANGED <<envVars, service, state, heap, cache, op, snap, tic, arg, last, forced,
                   loadsSinceWrite, lightcurves, autoFetch, blsVars>>

\* infer.py:43-50 up to the call of load_state: stat latest.txt and decide;
\* raise if the pointer file is missing, start load_state if a reload is due,
\* else return the current state.
RfDecide(t) ==
       IF ~latestExists
       THEN RefreshRaises(t, Exc("FileNotFoundError", NoCause))
       ELSE IF ShouldLoad(force[t], latestMtime)
       THEN /\ lock' = t
            /\ pc' = [pc EXCEPT ![t] = "ld_read"]
            /\ UNCHANGED <<envVars, service, serviceLock, state, heap, cache, op, ctor,
                           force, bundle, snap, tic, arg, last, result, forced,
                           loadsSinceWrite,
                           lightcurves, autoFetch, blsVars>>
       ELSE /\ RefreshReturns(t, state, heap[state])
            /\ UNCHANGED <<envVars, state, heap, cache, op, tic, arg, last, forced,
                           loadsSinceWrite, lightcurves, autoFetch, blsVars>>

\* Fault: refresh runs without taking self._lock.
RfEnterNoWait(t) ==
    /\ pc[t] = "rf_lock"
    /\ RfDecide(t)

\* infer.py:42-50 without a reload: take self._lock, then decide.
RfEnter(t) ==
    /\ pc[t] = "rf_lock"
    /\ lock = 0
    /\ RfDecide(t)

\* loader.load_state, lines 36-93: read latest.txt and load the files it names.
LdRead(t) ==
    /\ pc[t] = "ld_read"
    /\ IF ~latestExists
       THEN RefreshRaises(t, Exc("FileNotFoundError", NoCause))
       ELSE IF latestText = EmptyText
       THEN RefreshRaises(t, Exc("ValueError", NoCause))
       ELSE \E b \in {LoadBundle(latestText, Len(heap) + 1)} :
            IF ~b.ok
            THEN RefreshRaises(t, b.exc)
            ELSE /\ bundle' = [bundle EXCEPT ![t] = b]
                 /\ pc' = [pc EXCEPT ![t] = "ld_finish"]
                 /\ UNCHANGED <<envVars, service, serviceLock, state, heap, lock, cache, op,
                                ctor, force, snap, tic, arg, last, result, forced,
                                loadsSinceWrite, lightcurves, autoFetch, blsVars>>

\* Fault: a reload updates the dict self._state refers to in place.
LdFinishInPlace(t) ==
    /\ pc[t] = "ld_finish"
    /\ IF ~latestExists
       THEN RefreshRaises(t, Exc("FileNotFoundError", NoCause))
       ELSE /\ heap' = IF state = 0 THEN Append(heap, MakeState(bundle[t], latestMtime))
                       ELSE [heap EXCEPT ![state] = MakeState(bundle[t], latestMtime)]
            /\ state' = IF state = 0 THEN Len(heap) + 1 ELSE state
            /\ loadsSinceWrite' = IF force[t] THEN loadsSinceWrite ELSE loadsSinceWrite + 1
            /\ RefreshReturns(t, IF state = 0 THEN Len(heap) + 1 ELSE state,
                              MakeState(bundle[t], latestMtime))
            /\ UNCHANGED <<envVars, cache, op, tic, arg, last, forced,
                           lightcurves, autoFetch, blsVars>>

\* loader.load_state, lines 95-108, and infer.py:48-50: stat latest.txt, build
\* the state dict and return it; refresh stores it in self._state and returns it.
LdFinish(t) ==
    /\ pc[t] = "ld_finish"
    /\ IF ~latestExists
       THEN RefreshRaises(t, Exc("FileNotFoundError", NoCause))
       ELSE /\ heap' = Append(heap, MakeState(bundle[t], latestMtime))
            /\ state' = Len(heap) + 1
            /\ loadsSinceWrite' = IF force[t] THEN loadsSinceWrite ELSE loadsSinceWrite + 1
            /\ RefreshReturns(t, Len(heap) + 1, MakeState(bundle[t], latestMtime))
            /\ UNCHANGED <<envVars, cache, op, tic, arg, last, forced,
                           lightcurves, autoFetch, blsVars>>

\* A handler returns or raises: its locals are gone.
Finish(t, res) ==
    /\ result' = [result EXCEPT ![t] = res]
    /\ snap' = [snap EXCEPT ![t] = 0]
    /\ tic' = [tic EXCEPT ![t] = 0]
    /\ autoFetch' = [autoFetch EXCEPT ![t] = FALSE]
    /\ pc' = [pc EXCEPT ![t] = "done"]

\* The caller has taken the response or the exception; h is what the history
\* keeps of it.
Return(t, h) ==
    /\ pc[t] = "done"
    /\ pc' = [pc EXCEPT ![t] = "idle"]
    /\ result' = [result EXCEPT ![t] = NoResult]
    /\ op' = [op EXCEPT ![t] = "startup"]
    /\ arg' = [arg EXCEPT ![t] = NoArg]
    /\ last' = h
    /\ UNCHANGED <<envVars, service, serviceLock, state, heap, lock, cache, ctor, force,
                   bundle, snap, tic, forced, loadsSinceWrite,
                   lightcurves, autoFetch, blsVars>>

\* predict_by_tic, infer.py:76-99 (and 118-131 on a cache hit): read the light
\* curve, fetching it if it is missing and the setting allows, and the feature
\* cache; a cached row is scored as it is.  A fetch fails or stores a series.
PtReadWith(t, tics, auto_fetch_missing) ==
    /\ pc[t] = "pt_read"
    /\ \E id \in tics :
        /\ arg' = [arg EXCEPT ![t] = Args(id, NoLightcurve, NoMeta)]
        /\ IF lightcurves[id] = NoLightcurve
           THEN IF ~auto_fetch_missing
                THEN /\ Finish(t, Error(Exc("LightcurveNotFoundError",
                                            Exc("FileNotFoundError", NoCause))))
                     /\ UNCHANGED lightcurves
                ELSE \E fetched \in MastLightcurves \cup {NoLightcurve} :
                     IF fetched = NoLightcurve
                     THEN /\ Finish(t, Error(Exc("LightcurveNotFoundError",
                                                 Exc("RuntimeError", NoCause))))
                          /\ UNCHANGED lightcurves
                     ELSE /\ lightcurves' = [lightcurves EXCEPT ![id] = fetched]
                          /\ autoFetch' = [autoFetch EXCEPT ![t] = TRUE]
                          /\ tic' = [tic EXCEPT ![t] = id]
                          /\ pc' = [pc EXCEPT ![t] = "pt_compute"]
                          /\ UNCHANGED <<result, snap>>
           ELSE IF read_cached_features(cache[id]) # NoRow
           THEN /\ \E features \in {read_cached_features(cache[id])} :
                   Finish(t, _score(features, _summary_from_features(features), <<>>, id,
                                    ScoredState(t), ReportedState(t), TRUE, FALSE))
                /\ UNCHANGED lightcurves
           ELSE /\ tic' = [tic EXCEPT ![t] = id]
                /\ pc' = [pc EXCEPT ![t] = "pt_compute"]
                /\ UNCHANGED <<result, snap, autoFetch, lightcurves>>
    /\ UNCHANGED <<envVars, service, serviceLock, state, heap, lock, cache, op, ctor,
                   force, bundle, last, forced, loadsSinceWrite, blsVars>>

\* predict_by_tic up to its cache read, under the default settings.
PtRead(t, tics) == PtReadWith(t, tics, AutoFetchMissing)

\* Fault: a failed extraction removes the TIC's cached row.
PtComputeDropping(t) ==
    /\ pc[t] = "pt_compute"
    /\ \E r \in {ComputeForTic(lightcurves[tic[t]])} :
           IF ~r.ok
           THEN /\ cache' = [cache EXCEPT ![tic[t]] = NoRow]
                /\ Finish(t, Error(r.exc))
           ELSE /\ cache' = [cache EXCEPT ![tic[t]] = write_cached_features(r.features)]
                /\ Finish(t, _score(r.features, r.summary, r.warnings, tic[t],
                                    ScoredState(t), ReportedState(t), FALSE,
                                    autoFetch[t]))
    /\ UNCHANGED <<envVars, service, serviceLock, state, heap, lock, op, ctor, force,
                   bundle, arg, last, forced, loadsSinceWrite, lightcurves, blsVars>>

\* predict_by_tic, infer.py:100-131: compute the features, cache them, score.
PtCompute(t) ==
    /\ pc[t] = "pt_compute"
    /\ \E r \in {ComputeForTic(lightcurves[tic[t]])} :
           IF ~r.ok
           THEN Finish(t, Error(r.exc)) /\ UNCHANGED cache
           ELSE /\ cache' = [cache EXCEPT ![tic[t]] = write_cached_features(r.features)]
                /\ Finish(t, _score(r.features, r.summary, r.warnings, tic[t],
                                    ScoredState(t), ReportedState(t), FALSE,
                                    autoFetch[t]))
    /\ UNCHANGED <<envVars, service, serviceLock, state, heap, lock, op, ctor, force,
                   bundle, arg, last, forced, loadsSinceWrite, lightcurves, blsVars>>

\* predict_from_arrays, infer.py:141-159.
PaScore(t, arrays, metas) ==
    /\ pc[t] = "pa_score"
    /\ \E lc \in arrays, meta \in metas :
        \E r \in {_compute_features(lc, meta)} :
            /\ arg' = [arg EXCEPT ![t] = Args(0, lc, meta)]
            /\ IF ~r.ok
               THEN Finish(t, Error(r.exc))
               ELSE Finish(t, _score(r.features, r.summary, r.warnings, 0,
                                     ScoredState(t), ReportedState(t), FALSE, FALSE))
    /\ UNCHANGED <<envVars, service, serviceLock, state, heap, lock, cache, op, ctor,
                   force, bundle, last, forced, loadsSinceWrite, lightcurves, blsVars>>

\* fastapi.HTTPException(status_code, detail); the same record stands for the
\* response the framework sends.
HTTPException(status_code, detail) ==
    [kind |-> "http", status_code |-> status_code, detail |-> detail]

\* main.py:71 and :95
InsufficientDetail ==
    [message |-> "insufficient_data", warnings |-> <<"insufficient_data">>]

\* PredictionResponse(**payload) (schemas.py:53-86): PredictionMeta keeps its
\* three fields.
PredictionResponse(payload) ==
    HTTPException(200,
        [tic_id |-> payload.tic_id, mode |-> payload.mode,
         is_probability |-> payload.is_probability, score |-> payload.score,
         summary |-> payload.summary, features |-> payload.features,
         warnings |-> payload.warnings,
         meta |-> [key \in {"artifact_dir", "feature_names_version", "runtime_ms"} |->
                      payload.meta[key]]])

\* main.py:60-73: GET /predict/by_tic, given what service.predict_by_tic
\* returned or raised.  An exception no handler catches is answered 500 by
\* the framework.
predict_by_tic(res) ==
    IF res.kind = "prediction" THEN PredictionResponse(res)
    ELSE IF res.exc.type = "LightcurveNotFoundError"
    THEN HTTPException(404, res.exc.type)
    ELSE IF res.exc.type = "InsufficientDataError"
    THEN HTTPException(422, InsufficientDetail)
    ELSE IF res.exc.type = "FeatureExtractionError"
    THEN HTTPException(500, res.exc.type)
    ELSE HTTPException(500, "Internal Server Error")

\* Fault: InsufficientDataError is answered like any other extraction failure.
predict_from_lightcurve_one_status(res) ==
    IF res.kind = "prediction" THEN PredictionResponse(res)
    ELSE IF res.exc.type \in {"InsufficientDataError", "FeatureExtractionError"}
    THEN HTTPException(400, res.exc.type)
    ELSE HTTPException(500, "Internal Server Error")

\* main.py:86-97: POST /predict/from_lightcurve once the lengths agree, given
\* what service.predict_from_arrays returned or raised.
predict_from_lightcurve(res) ==
    IF res.kind = "prediction" THEN PredictionResponse(res)
    ELSE IF res.exc.type = "InsufficientDataError"
    THEN HTTPException(422, InsufficientDetail)
    ELSE IF res.exc.type = "FeatureExtractionError"
    THEN HTTPException(400, res.exc.type)
    ELSE HTTPException(500, "Internal Server Error")

\* What the client of thread t is answered once its handler is done; the
\* info endpoints and _startup answer 200 or fail unhandled.
Answer(t) ==
    IF result[t].kind = "http" THEN result[t]
    ELSE IF op[t] = "predict_by_tic" THEN predict_by_tic(result[t])
    ELSE IF op[t] = "predict_from_arrays" THEN predict_from_lightcurve(result[t])
    ELSE IF result[t].kind = "error" THEN HTTPException(500, "Internal Server Error")
    ELSE HTTPException(200, result[t])

\* main.py:81-84: a payload whose time and flux, or flux_err and time, differ
\* in length is rejected before service.predict_from_arrays is called.
PaReject(t) ==
    /\ pc[t] = "rf_lock"
    /\ ~ctor[t]
    /\ op[t] = "predict_from_arrays"
    /\ \E detail \in {"time and flux length mismatch", "flux_err length mismatch"} :
           Finish(t, HTTPException(400, detail))
    /\ UNCHANGED <<envVars, service, serviceLock, state, heap, lock, cache, op, ctor,
                   force, bundle, arg, last, forced, loadsSinceWrite, lightcurves, blsVars>>

\* Fault: the rewritten pointer file carries an older modification time.
WritePointerBackdated(texts) ==
    /\ writes < MaxWrites
    /\ \E text \in texts : latestText' = text
    /\ latestExists' = TRUE
    /\ latestMtime' = latestMtime - 1
    /\ writes' = writes + 1
    /\ loadsSinceWrite' = 0
    /\ UNCHANGED <<service, serviceLock, state, heap, lock, cache, pc, op, ctor, force,
                   bundle, snap, tic, arg, last, result, forced, lightcurves, autoFetch,
                   blsVars>>

\* The operator publishes a bundle: latest.txt is rewritten, its mtime advances.
WritePointer(texts) ==
    /\ writes < MaxWrites
    /\ \E text \in texts : latestText' = text
    /\ latestExists' = TRUE
    /\ latestMtime' = latestMtime + 1
    /\ writes' = writes + 1
    /\ loadsSinceWrite' = 0
    /\ UNCHANGED <<service, serviceLock, state, heap, lock, cache, pc, op, ctor, force,
                   bundle, snap, tic, arg, last, result, forced,
                   lightcurves, autoFetch, blsVars>>

\* latest.txt is removed.
DeletePointer ==
    /\ latestExists
    /\ latestExists' = FALSE
    /\ UNCHANGED <<latestText, latestMtime, writes, service, serviceLock, state, heap,
                   lock, cache, pc, op, ctor, force, bundle, snap, tic, arg, last, result,
                   forced,
                   loadsSinceWrite, lightcurves, autoFetch, blsVars>>

NoSample == Lc(<<>>, FitRaises)
NoOutcome == [kind |-> "none"]

\* Before the first request: no singleton, no state, every lock free.
InitService ==
    /\ latestExists = TRUE
    /\ latestMtime = 1
    /\ writes = 0
    /\ service = FALSE
    /\ serviceLock = 0
    /\ state = 0
    /\ heap = <<>>
    /\ lock = 0
    /\ pc = [t \in Threads |-> "idle"]
    /\ op = [t \in Threads |-> "startup"]
    /\ ctor = [t \in Threads |-> FALSE]
    /\ force = [t \in Threads |-> FALSE]
    /\ bundle = [t \in Threads |-> NoBundle]
    /\ snap = [t \in Threads |-> 0]
    /\ tic = [t \in Threads |-> 0]
    /\ autoFetch = [t \in Threads |-> FALSE]
    /\ lightcurves = [id \in Catalog |-> LightcurveStore(id)]
    /\ arg = [t \in Threads |-> NoArg]
    /\ last = NoneTaken
    /\ result = [t \in Threads |-> NoResult]
    /\ forced = 0
    /\ loadsSinceWrite = 0

-----------------------------------------------------------------------------
(* Spec: concurrent requests against one pointer file.  The requests carry   *)
(* one payload and two TICs; the pointer names two good bundles, one whose    *)
(* model file is missing, or nothing.                                        *)

SpecArrays == {LcGood}
SpecMetas == {NoMeta}
SpecTics == {1, 3}
SpecTexts ==
    { File("model_iso_", "v1", ".pkl"), File("model_xgb_", "v2", ".json"),
      File("model_iso_", "v5", ".pkl"), EmptyText }

Init ==
    /\ InitService
    /\ latestText \in SpecTexts
    /\ cache = [id \in TicIds |-> NoRow]
    /\ sample = NoSample
    /\ outcome = NoOutcome

Next ==
    \/ \E t \in Threads : Start(t)
    \/ \E t \in Threads : GetService(t)
    \/ \E t \in Threads : RfEnter(t)
    \/ \E t \in Threads : LdRead(t)
    \/ \E t \in Threads : LdFinish(t)
    \/ \E t \in Threads : PtRead(t, SpecTics)
    \/ \E t \in Threads : PtCompute(t)
    \/ \E t \in Threads : PaScore(t, SpecArrays, SpecMetas)
    \/ \E t \in Threads : Return(t, last)
    \/ WritePointer(SpecTexts)
    \/ DeletePointer

Spec == Init /\ [][Next]_vars

-----------------------------------------------------------------------------
(* SpecScore: one client at a time, every payload, meta mapping, TIC and     *)
(* pointer text, and a feature cache that may hold a row of an earlier run.  *)

Client == CHOOSE t \in Threads : \A u \in Threads : t <= u

InitScore ==
    /\ InitService
    /\ latestText \in PointerTexts
    /\ cache \in {[id \in TicIds |-> NoRow],
                  [id \in TicIds |-> IF id \in {2, 3} THEN StaleRow ELSE NoRow]}
    /\ sample = NoSample
    /\ outcome = NoOutcome

NextScore ==
    \/ Start(Client)
    \/ GetService(Client)
    \/ RfEnter(Client)
    \/ LdRead(Client)
    \/ LdFinish(Client)
    \/ PtRead(Client, TicIds)
    \/ PtCompute(Client)
    \/ PaScore(Client, ArrayInputs, Metas)
    \/ Return(Client, Observed(Client))
    \/ WritePointer(PointerTexts)
    \/ DeletePointer

SpecScore == InitScore /\ [][NextScore]_vars

-----------------------------------------------------------------------------
(* SpecHttp: one client against the endpoints of main.py, with               *)
(* auto_fetch_missing set: four TICs (one unknown, one short), three          *)
(* payloads, payloads of mismatched lengths, and a feature cache that may    *)
(* hold a row of an earlier run.                                             *)

InitHttp ==
    /\ InitService
    /\ latestText \in {File("model_iso_", "v1", ".pkl"), EmptyText}
    /\ cache \in {[id \in Catalog |-> NoRow],
                  [id \in Catalog |-> IF id = 3 THEN StaleRow ELSE NoRow]}
    /\ sample = NoSample
    /\ outcome = NoOutcome

NextHttp ==
    \/ Start(Client)
    \/ GetService(Client)
    \/ RfEnter(Client)
    \/ LdRead(Client)
    \/ LdFinish(Client)
    \/ PtReadWith(Client, Catalog, TRUE)
    \/ PtCompute(Client)
    \/ PaScore(Client, {LcGood, LcShort, LcZero}, SpecMetas)
    \/ PaReject(Client)
    \/ Return(Client, Observed(Client))

SpecHttp == InitHttp /\ [][NextHttp]_vars

-----------------------------------------------------------------------------
(* SpecLoad: one client, one payload and one TIC, and every kind of bundle    *)
(* the pointer file may name.                                                *)

LoadTexts ==
    { File("model_iso_", "v1", ".pkl"), File("model_xgb_", "v2", ".json"),
      File("model_iso_", "v2", ".pkl"), File("model_xgb_", "v3", ".pkl"),
      File("model_rf_", "v4", ".pkl"), File("model_iso_", "v5", ".pkl"),
      File("model_iso_", "v6", ".pkl"), File("model_xgb_", "v7", ".ubj"),
      File("model_xgb_", "v8", ".pkl"), File("model_iso_", "v9", ".pkl"),
      File("model_xgb_", "v10", ".bin"), File("model_xgb_", "v11", ".ubj"),
      File("model_iso_", "v12", ".pkl"), EmptyText }

InitLoad ==
    /\ InitService
    /\ latestText \in LoadTexts
    /\ cache = [id \in TicIds |-> NoRow]
    /\ sample = NoSample
    /\ outcome = NoOutcome

NextLoad ==
    \/ Start(Client)
    \/ GetService(Client)
    \/ RfEnter(Client)
    \/ LdRead(Client)
    \/ LdFinish(Client)
    \/ PtRead(Client, {1})
    \/ PtCompute(Client)
    \/ PaScore(Client, SpecArrays, SpecMetas)
    \/ Return(Client, last)
    \/ WritePointer(LoadTexts)
    \/ DeletePointer

SpecLoad == InitLoad /\ [][NextLoad]_vars

-----------------------------------------------------------------------------
(* SpecBLS: build_bls_features applied to every sample of up to MaxBlocks    *)
(* blocks.  A block has 1, MIN_SAMPLES/2 - 1 or MIN_SAMPLES/2 entries, a     *)
(* flux of 0, 10, 12, 90 (an outlier), 1010 or 8423 (with 10 and 1010 it     *)
(* lies on the clipping threshold), and at most one non-finite field.        *)

MaxBlocks == 3

BlockCounts == {1, MIN_SAMPLES \div 2 - 1, MIN_SAMPLES \div 2}

BlockKinds ==
    {[time |-> Fin(0), flux |-> Fin(f), err |-> Fin(1)] : f \in {0, 10, 12, 90, 1010, 8423}}
    \cup {[time |-> NaN, flux |-> Fin(10), err |-> Fin(1)],
          [time |-> Fin(0), flux |-> NaN, err |-> Fin(1)],
          [time |-> Fin(0), flux |-> Fin(10), err |-> PosInf]}

\* The blocks' times run backwards, so the input is not in time order.
Blocks(counts, kinds) ==
    [i \in DOMAIN counts |->
        Block(counts[i],
              IF IsFinite(kinds[i].time) THEN Fin(Len(counts) - i) ELSE kinds[i].time,
              kinds[i].flux, kinds[i].err)]

InitBLS ==
    /\ InitService
    /\ latestText = EmptyText
    /\ cache = [id \in TicIds |-> NoRow]
    /\ \E len \in 1..MaxBlocks :
        \E counts \in [1..len -> BlockCounts], kinds \in [1..len -> BlockKinds],
           e \in BOOLEAN :
            sample = [blocks |-> Blocks(counts, kinds), has_err |-> e, fit |-> FitTransit]
    /\ outcome = NoOutcome

\* One call of build_bls_features(settings, time, flux, flux_err, meta).
BuildFeatures ==
    /\ outcome = NoOutcome
    /\ \E r \in {build_bls_features(sample, NoMeta)} :
           outcome' = IF r.ok THEN [kind |-> "features", features |-> r.features,
                                    warnings |-> r.warnings]
                      ELSE [kind |-> "raised", exc |-> r.exc]
    /\ UNCHANGED <<svcVars, sample>>

NextBLS == BuildFeatures

SpecBLS == InitBLS /\ [][NextBLS]_vars

-----------------------------------------------------------------------------
(* SpecDerive: build_bls_features applied to samples of 200 entries over a   *)
(* baseline of 0 to MaxBaseline days, for every best period from -2 to       *)
(* MaxPeriod days and three durations.                                       *)

MaxBaseline == 6
MaxPeriod == 5

Periods == -2..MaxPeriod
Durations == {6, 12, 24}

FitWith(period, duration) ==
    [FitTransit EXCEPT !.period_days = Fin(period), !.duration_hours = Fin(duration)]

Spanning(days) ==
    <<Block(MIN_SAMPLES \div 2, Fin(0), Fin(10), NaN),
      Block(MIN_SAMPLES \div 2, Fin(days), Fin(10), NaN)>>

InitDerive ==
    /\ InitService
    /\ latestText = EmptyText
    /\ cache = [id \in TicIds |-> NoRow]
    /\ \E days \in 0..MaxBaseline, period \in Periods, duration \in Durations :
          sample = Lc(Spanning(days), FitWith(period, duration))
    /\ outcome = NoOutcome

NextDerive == BuildFeatures

SpecDerive == InitDerive /\ [][NextDerive]_vars

-----------------------------------------------------------------------------
(* The statistics build_bls_features derives from the period search          *)
(* (bls.py:119, 151-184), as pure functions of the normalised series, the    *)
(* best period, duration and epoch, and the power spectrum.  Times, the      *)
(* period and the duration share one unit; the normalised flux is an         *)
(* integer; ratios are in thousandths.                                       *)

\* BoxLeastSquares.transit_mask of one sample, as called at bls.py:151-154:
\* abs((t - transit_time + period / 2) % period - period / 2) < duration / 2,
\* with both sides doubled.  Python's % takes the sign of the divisor, and a
\* zero period gives NaN, which compares False.
transit_mask(time, period, duration, transit_time) ==
    IF period > 0
    THEN Abs(((2 * (time - transit_time) + period) % (2 * period)) - period) < duration
    ELSE IF period < 0
    THEN Abs((0 - ((0 - (2 * (time - transit_time) + period)) % (2 * (0 - period))))
                 - period) < duration
    ELSE FALSE

\* bls.py:173-176: floor((time - best_t0) / best_period + 1e-6) for a positive
\* period, else 0.
transit_numbers(time, best_t0, best_period) ==
    IF best_period > 0
    THEN (1000000 * (time - best_t0) + best_period) \div (1000000 * best_period)
    ELSE 0

\* bls.py:177: transit_mask_array & (transit_numbers % 2 == 0), as indices.
odd_mask(points, best_period, best_duration, best_t0) ==
    {i \in DOMAIN points :
        /\ transit_mask(points[i].time, best_period, best_duration, best_t0)
        /\ transit_numbers(points[i].time, best_t0, best_period) % 2 = 0}

\* bls.py:178: transit_mask_array & (transit_numbers % 2 == 1), as indices.
even_mask(points, best_period, best_duration, best_t0) ==
    {i \in DOMAIN points :
        /\ transit_mask(points[i].time, best_period, best_duration, best_t0)
        /\ transit_numbers(points[i].time, best_t0, best_period) % 2 = 1}

\* The sum of norm_flux[mask].
FluxSum(points, mask) ==
    Sum([i \in DOMAIN points |-> IF i \in mask THEN points[i].flux ELSE 0])

\* bls.py:180-182: abs(mean(odd)) / abs(mean(even)) if the latter is not zero,
\* else 1.0.
DepthRatio(odd_sum, odd_n, even_sum, even_n) ==
    IF even_sum # 0
    THEN Fin((1000 * Abs(odd_sum) * even_n) \div (odd_n * Abs(even_sum)))
    ELSE Fin(1000)

\* Fault: the ratio falls back to 0.0.
odd_even_depth_ratio_or_zero(points, odd, even) ==
    IF odd # {} /\ even # {} /\ FluxSum(points, even) # 0
    THEN DepthRatio(FluxSum(points, odd), Cardinality(odd),
                    FluxSum(points, even), Cardinality(even))
    ELSE Fin(0)

\* bls.py:179-184
odd_even_depth_ratio(points, odd, even) ==
    IF odd # {} /\ even # {}
    THEN DepthRatio(FluxSum(points, odd), Cardinality(odd),
                    FluxSum(points, even), Cardinality(even))
    ELSE Fin(1000)

\* np.nanargmax(results.power) (bls.py:119): the first index of the largest
\* power that is not NaN; 0 stands for the ValueError of an all-NaN spectrum.
best_idx(power) ==
    IF \A i \in DOMAIN power : IsNaN(power[i]) THEN 0
    ELSE CHOOSE i \in DOMAIN power :
            /\ ~IsNaN(power[i])
            /\ \A j \in DOMAIN power : ~IsNaN(power[j]) => power[j].v <= power[i].v
            /\ \A j \in 1..(i - 1) : IsNaN(power[j]) \/ power[j].v < power[i].v

\* The order np.argsort sorts by: NaN after every number.
SortsBefore(x, y) == ~IsNaN(x) /\ (IsNaN(y) \/ x.v <= y.v)

\* results.power[np.argsort(results.power)[-2]] (bls.py:166-170): the value
\* in the last place but one of the sorted spectrum.
second_best_power(power) ==
    CHOOSE x \in {power[i] : i \in DOMAIN power} :
        \E i \in DOMAIN power :
            /\ power[i] = x
            /\ \E j \in DOMAIN power \ {i} :
                /\ SortsBefore(x, power[j]) \/ x = power[j]
                /\ \A k \in DOMAIN power \ {i, j} :
                       SortsBefore(power[k], x) \/ power[k] = x

\* Fault: the ratio is taken of the best power itself.
secondary_snr_of_best(second, best) ==
    IF IsNaN(best) \/ best.v # 0
    THEN IF IsNaN(best) THEN NaN ELSE Fin(1000)
    ELSE Fin(0)

\* bls.py:171: second_best_power / results.power[best_idx] if the latter is
\* truthy, else 0.0.
secondary_snr(second, best) ==
    IF best.v # 0
    THEN IF IsNaN(second) THEN NaN ELSE Fin((1000 * second.v) \div best.v)
    ELSE Fin(0)

\* bls.py:119, 151-184: the statistics of one search result.
Statistics(s) ==
    IF best_idx(s.power) = 0 THEN [kind |-> "raised", exc |-> Exc("ValueError", NoCause)]
    ELSE [kind |-> "stats",
          odd_even_depth_ratio |->
              odd_even_depth_ratio(s.points,
                  odd_mask(s.points, s.period, s.duration, s.t0),
                  even_mask(s.points, s.period, s.duration, s.t0)),
          secondary_snr |->
              secondary_snr(IF Len(s.power) > 1 THEN second_best_power(s.power)
                            ELSE Fin(0),
                            s.power[best_idx(s.power)])]

\* The statistics part of one call of build_bls_features.
ComputeStats ==
    /\ outcome = NoOutcome
    /\ outcome' = Statistics(sample)
    /\ UNCHANGED <<svcVars, sample>>

-----------------------------------------------------------------------------
(* SpecParity: the odd/even statistics of every series with one sample at    *)
(* each time 0..MaxTime, for a best period of -4, 0, 4 or 12, an epoch of 1  *)
(* or 2 and a duration of 2 or 4.                                            *)

MaxTime == 6

InitParity ==
    /\ InitService
    /\ latestText = EmptyText
    /\ cache = [id \in TicIds |-> NoRow]
    /\ \E f \in [1..(MaxTime + 1) -> {-2, 0, 1}], period \in {-4, 0, 4, 12},
          t0 \in {1, 2}, duration \in {2, 4} :
          sample = [points |-> [i \in 1..(MaxTime + 1) |-> [time |-> i - 1, flux |-> f[i]]],
                    period |-> period, t0 |-> t0, duration |-> duration,
                    power |-> <<Fin(2), Fin(1)>>]
    /\ outcome = NoOutcome

SpecParity == InitParity /\ [][ComputeStats]_vars

-----------------------------------------------------------------------------
(* SpecPower: the secondary statistic of every power spectrum of up to       *)
(* MaxGrid grid points with powers -1, 0, 1, 2 or NaN.                       *)

MaxGrid == 3

InitPower ==
    /\ InitService
    /\ latestText = EmptyText
    /\ cache = [id \in TicIds |-> NoRow]
    /\ \E n \in 1..MaxGrid : \E power \in [1..n -> {Fin(-1), Fin(0), Fin(1), Fin(2), NaN}] :
          sample = [points |-> <<>>, period |-> 4, t0 |-> 1, duration |-> 2,
                    power |-> power]
    /\ outcome = NoOutcome

SpecPower == InitPower /\ [][ComputeStats]_vars


-----------------------------------------------------------------------------
(* Properties of the service under concurrent requests (Spec).               *)

Scoring == {"pt_read", "pt_compute", "pa_score"}
Requests == Ops \ {"startup"}

\* What a prediction used and reported is what the state dict st holds.
FromOneLoad(res, st) ==
    /\ res.mode = st.mode
    /\ res.meta.feature_names_version = st.feature_names_version
    /\ res.used.feature_names = st.feature_names
    /\ res.used.model = st.model
    /\ res.used.scaler = st.scaler
    /\ res.used.calibrator = st.calibrator

\* C1: whatever the interleaving of predictions with reloads, the mode,
\* feature-name order, model, scaler, calibrator and feature_names_version a
\* prediction uses and reports all come from one load_state result.
C1_SingleSnapshot ==
    \A t \in Threads :
        result[t].kind = "prediction" =>
            \E i \in DOMAIN heap : FromOneLoad(result[t], heap[i])

\* A prediction returned from a snapshot that a reload of another mode has
\* replaced in the meantime.
C1_Witness ==
    \E t \in Threads :
        /\ result[t].kind = "prediction"
        /\ state # 0
        /\ result[t].used.model # heap[state].model
        /\ result[t].mode # heap[state].mode

\* C2: a refresh that finds the pointer file calls load_state iff force is
\* set, or no state is loaded, or the pointer's mtime is strictly greater than
\* the recorded latest_mtime; otherwise it loads nothing, leaves the shared
\* state as it is and returns it.
C2_ReloadPolicy ==
    [][\A t \in Threads :
        (pc[t] = "rf_lock" /\ pc'[t] # "rf_lock" /\ latestExists) =>
            IF force[t] \/ state = 0 \/ latestMtime > heap[state].latest_mtime
            THEN pc'[t] = "ld_read" /\ lock' = t
            ELSE /\ pc'[t] # "ld_read"
                 /\ state' = state
                 /\ heap' = heap
                 /\ pc'[t] \in Scoring => snap'[t] = state
                 /\ pc'[t] = "done" => result'[t] = InfoResult(op[t], heap[state])]_vars

\* A non-forced refresh is inside load_state because the pointer's mtime
\* exceeds the recorded one, while another request holds the state that an
\* earlier refresh returned without loading.
C2_Witness ==
    \E t \in Threads, u \in Threads :
        /\ pc[t] = "ld_read"
        /\ ~force[t]
        /\ state # 0
        /\ latestMtime > heap[state].latest_mtime
        /\ pc[u] \in Scoring
        /\ snap[u] = state

\* C3: the shared state is None only until the first successful load and
\* never again; a state dict, once returned by load_state, never changes; the
\* shared reference changes only by being set to the dict a successful
\* load_state call has just returned; a refresh that raises leaves it as it was.
C3_StateLifecycle ==
    [][/\ (state = 0) = (heap = <<>>)
       /\ (state' = 0) = (heap' = <<>>)
       /\ state # 0 => state' # 0
       /\ \A i \in DOMAIN heap : i \in DOMAIN heap' /\ heap'[i] = heap[i]
       /\ state' # state =>
            \E t \in Threads :
                /\ pc[t] = "ld_finish"
                /\ latestExists
                /\ heap' = Append(heap, MakeState(bundle[t], latestMtime))
                /\ state' = Len(heap')
       /\ \A t \in Threads :
            (pc[t] \in {"rf_lock"} \cup LoadPcs /\ result'[t].kind = "error") =>
                state' = state /\ heap' = heap]_vars

\* After a hot swap a refresh has raised out of a failed reload (the pointer
\* file is empty), and the shared reference still names the last state loaded.
C3_Witness ==
    \E t \in Threads :
        /\ result[t] = Error(Exc("ValueError", NoCause))
        /\ latestText = EmptyText
        /\ Len(heap) >= 2
        /\ state = Len(heap)

\* load_state is about to fail in thread t.
LoadFails(t) ==
    /\ pc[t] \in LoadPcs
    /\ \/ ~latestExists
       \/ pc[t] = "ld_read" /\ latestText = EmptyText
       \/ pc[t] = "ld_read" /\ latestText \notin ModelDirFiles

\* C4: a published service always has a loaded state; a load_state failure
\* inside the constructor raises out of get_inference_service with the
\* singleton unset and its lock released; a load_state failure in a later
\* reload gives the request the load error, never a prediction, and the
\* shared state stays as it was.
C4_LoadFailureFatal ==
    [][/\ service => state # 0
       /\ service' => state' # 0
       /\ \A t \in Threads :
            (LoadFails(t) /\ pc'[t] # pc[t]) =>
                /\ pc'[t] = "done"
                /\ result'[t].kind = "error"
                /\ result'[t].exc.type \in {"FileNotFoundError", "ValueError"}
                /\ state' = state
                /\ service' = service
                /\ ctor[t] => ~service' /\ serviceLock' = 0 /\ state' = 0]_vars

\* A prediction request has raised the load error of a reload (the pointer
\* file is empty) while the service holds an earlier state.
C4_Witness ==
    \E t \in Threads :
        /\ result[t] = Error(Exc("ValueError", NoCause))
        /\ op[t] \in {"predict_by_tic", "predict_from_arrays"}
        /\ service
        /\ state # 0

\* C5 as stated: a request that reads the published state never has to wait
\* for the reload lock.
C5_ReadersNeverWait ==
    \A t \in Threads :
        (pc[t] = "rf_lock" /\ op[t] \in Requests /\ service /\ state # 0) => lock = 0

\* C5 as amended: a request obtains its snapshot through refresh(), which
\* takes the reload lock, so it waits while another thread is inside
\* load_state; once refresh() has returned, the request reads and scores with
\* its snapshot without holding the lock.
C5_LockOnlyInRefresh ==
    [][/\ \A t \in Threads : pc[t] \in Scoring => lock # t /\ snap[t] \in DOMAIN heap
       /\ \A t \in Threads : pc'[t] \in Scoring => lock' # t /\ snap'[t] \in DOMAIN heap'
       /\ \A t \in Threads :
            (pc[t] = "rf_lock" /\ lock # 0) =>
                pc'[t] = "rf_lock" /\ snap'[t] = snap[t] /\ result'[t] = result[t]]_vars

\* A request scores with the published state while another thread is inside
\* load_state, holding the lock.
C5_Witness ==
    \E t \in Threads, u \in Threads :
        /\ pc[t] \in Scoring
        /\ snap[t] = state
        /\ pc[u] \in LoadPcs
        /\ lock = u

-----------------------------------------------------------------------------
(* Properties of build_bls_features (SpecBLS).                               *)

\* Entries whose time, flux and (when given) flux_err are all finite.
FiniteCount(s) ==
    Sum([i \in DOMAIN s.blocks |->
            IF /\ IsFinite(s.blocks[i].time)
               /\ IsFinite(s.blocks[i].flux)
               /\ (s.has_err => IsFinite(s.blocks[i].err))
            THEN s.blocks[i].n ELSE 0])

\* Entries left by the outlier clipping of the finite entries.
ClippedCount(s) ==
    Size(_five_sigma_clip(SortByTime(FiniteFilter(s.blocks, s.has_err))).blocks)

\* Fewer than 200 entries remain after the non-finite ones are dropped, or
\* after the clipping.
Insufficient(s) ==
    IF FiniteCount(s) < 200 THEN TRUE ELSE ClippedCount(s) < 200

\* C7: build_bls_features raises InsufficientDataError iff fewer than 200
\* entries remain after the non-finite ones are dropped or fewer than 200 after
\* clipping; with exactly 200 at both stages it does not, and a sample that is
\* too short raises nothing else (not the ValueError of a zero median).
C7_InsufficientIff ==
    outcome # NoOutcome =>
        (Insufficient(sample) <=>
            (outcome.kind = "raised" /\ outcome.exc.type = "InsufficientDataError"))

\* Features computed from a sample of which exactly 200 entries are finite
\* (others were dropped) and all 200 pass the clipping.
C7_Witness ==
    /\ outcome.kind = "features"
    /\ Size(sample.blocks) > 200
    /\ FiniteCount(sample) = 200
    /\ ClippedCount(sample) = 200

-----------------------------------------------------------------------------
(* Properties of the handlers' results (SpecScore).                          *)

\* What the caller gets when feature building raised exc.
AsClaimed(exc) ==
    Error(IF exc.type = "InsufficientDataError" THEN exc
          ELSE Exc("FeatureExtractionError", exc))

\* C8: an InsufficientDataError of build_bls_features reaches the caller of
\* predict_by_tic / predict_from_arrays as it is; any other exception it raises
\* reaches the caller as one FeatureExtractionError whose cause is that exception.
C8_ErrorPropagation ==
    [][\A t \in Threads :
        /\ (pc[t] = "pt_compute" /\ pc'[t] = "done"
              /\ ~build_bls_features(LightcurveStore(tic[t]), NoMeta).ok) =>
                result'[t] = AsClaimed(build_bls_features(LightcurveStore(tic[t]), NoMeta).exc)
        /\ (pc[t] = "pa_score" /\ pc'[t] = "done" /\ result'[t].kind = "error") =>
                \E lc \in ArrayInputs, meta \in Metas :
                    /\ ~build_bls_features(lc, meta).ok
                    /\ result'[t] = AsClaimed(build_bls_features(lc, meta).exc)]_vars

\* The model input recomputed from a result: the raw features in the order of
\* the feature names, through the scaler when there is one.
InputOf(u) ==
    IF u.scaler # None THEN Transform(u.scaler, Align(u.raw, u.feature_names))
    ELSE Align(u.raw, u.feature_names)

\* C9: every prediction has a score in [0, 1]; in one_class mode it is
\* clip(decision_function + 0.5, 0, 1) with is_probability false; in supervised
\* mode it is clip(s, 0, 1), s the calibrator's positive-class probability when
\* there is a calibrator and the booster's output otherwise, with
\* is_probability true; the models see the scaled input when there is a scaler.
C9_ScoreContract ==
    \A t \in Threads :
        result[t].kind = "prediction" =>
            /\ result[t].score \in 0..100
            /\ IF result[t].mode = "one_class"
               THEN /\ result[t].score =
                         Clip(decision_function(result[t].used.model,
                                                InputOf(result[t].used)) + 50, 0, 100)
                    /\ ~result[t].is_probability
               ELSE /\ result[t].mode = "supervised"
                    /\ result[t].score =
                         Clip(IF result[t].used.calibrator # None
                              THEN predict_proba(result[t].used.calibrator,
                                                 InputOf(result[t].used))
                              ELSE predict(result[t].used.model, InputOf(result[t].used)),
                              0, 100)
                    /\ result[t].is_probability

\* A one_class prediction through a scaler whose decision function came out
\* below -0.5, so that the clip gave the score 0.
C9_Witness ==
    \E t \in Threads :
        /\ result[t].kind = "prediction"
        /\ result[t].mode = "one_class"
        /\ result[t].used.scaler # None
        /\ decision_function(result[t].used.model, InputOf(result[t].used)) + 50 < 0
        /\ result[t].score = 0

\* C10: in a prediction every value of the feature payload and of the summary
\* is a finite number or null: NaN and +-inf never leave the service.
C10_NoNonFinite ==
    \A t \in Threads :
        result[t].kind = "prediction" =>
            /\ \A key \in DOMAIN result[t].features :
                    IsFinite(result[t].features[key]) \/ result[t].features[key] = Null
            /\ \A key \in DOMAIN result[t].summary :
                    IsFinite(result[t].summary[key]) \/ result[t].summary[key] = Null


ValidSample(lc) ==
    /\ \A i \in DOMAIN lc.blocks :
          IsFinite(lc.blocks[i].time) /\ IsFinite(lc.blocks[i].flux)
    /\ Size(lc.blocks) >= 200
    /\ Median2(FluxItems(lc.blocks)) # 0

\* C12: for a sample whose values are all finite, of length at least 200 and
\* with a non-zero median flux, feature extraction returns a vector with all 13
\* canonical keys, each finite or missing (NaN), or fails with
\* InsufficientDataError or FeatureExtractionError and with nothing else.
C12_ExtractionTotal ==
    [][\A t \in Threads :
        (pc[t] = "pa_score" /\ pc'[t] = "done" /\ ValidSample(arg'[t].lc)) =>
            IF result'[t].kind = "prediction"
            THEN /\ CanonicalKeys \subseteq DOMAIN result'[t].used.raw
                 /\ \A key \in CanonicalKeys :
                        IsFinite(result'[t].used.raw[key]) \/ IsNaN(result'[t].used.raw[key])
            ELSE result'[t].exc.type \in {"InsufficientDataError", "FeatureExtractionError"}]_vars

\* The keys every prediction result carries, and those of its meta block.
ResultKeys == {"mode", "score", "summary", "features", "warnings", "meta"}
MetaKeys == {"feature_names_version", "runtime_ms", "cache_hit", "auto_fetch"}

\* C13: a prediction result carries mode, score, a summary of exactly the five
\* canonical metrics, a feature payload with every feature of the vector scored,
\* a warnings list and a meta block with the artifact version, runtime_ms,
\* cache_hit and auto_fetch; predict_from_arrays reports cache_hit = false and
\* auto_fetch = false; predict_by_tic reports cache_hit = true exactly when the
\* features scored are the row read from the cache.
C13_ResultShape ==
    [][\A t \in Threads :
        (pc[t] \in Scoring /\ pc'[t] = "done" /\ result'[t].kind = "prediction") =>
            /\ ResultKeys \subseteq DOMAIN result'[t]
            /\ result'[t].score \in 0..100
            /\ DOMAIN result'[t].summary = SummaryKeys
            /\ DOMAIN result'[t].features = DOMAIN result'[t].used.raw
            /\ result'[t].warnings \in Seq({"aggressive_clipping"})
            /\ MetaKeys \subseteq DOMAIN result'[t].meta
            /\ result'[t].meta.feature_names_version = result'[t].used.model.file.ver
            /\ result'[t].meta.runtime_ms >= 0
            /\ pc[t] = "pa_score" =>
                    ~result'[t].meta.cache_hit /\ ~result'[t].meta.auto_fetch
            /\ pc[t] = "pt_read" =>
                    /\ result'[t].meta.cache_hit
                    /\ cache[arg'[t].tic_id] # NoRow
                    /\ result'[t].used.raw = read_cached_features(cache[arg'[t].tic_id])
            /\ pc[t] = "pt_compute" =>
                    /\ ~result'[t].meta.cache_hit
                    /\ result'[t].used.raw = ComputeForTic(LightcurveStore(tic[t])).features]_vars

\* predict_by_tic has answered from a cached row that lacks four of the five
\* summary columns: the summary still has the five keys, and cache_hit is true.
C13_Witness ==
    \E t \in Threads :
        /\ pc[t] = "done" /\ op[t] = "predict_by_tic"
        /\ result[t].kind = "prediction"
        /\ result[t].meta.cache_hit
        /\ result[t].used.raw = StaleRow
        /\ DOMAIN result[t].summary = SummaryKeys
        /\ result[t].summary["duration_hours"] = Null

-----------------------------------------------------------------------------
(* Properties of load_state (SpecLoad).                                      *)

\* The name list a feature-name document yields: the array itself, or the
\* array under the feature_names key of an object.
NamesIn(doc) ==
    IF doc.type = "array" \/ (doc.type = "object" /\ doc.key = "feature_names")
    THEN doc.items ELSE <<>>

\* The pointer text names a model file that exists, with one of the two known
\* prefixes, whose feature-name file exists and yields a non-empty name list.
WellFormed(text) ==
    /\ text # EmptyText
    /\ text \in ModelDirFiles
    /\ text.prefix \in {"model_iso_", "model_xgb_"}
    /\ File("feature_names_", text.ver, ".json") \in ModelDirFiles
    /\ NamesIn(FeatureNamesJson(File("feature_names_", text.ver, ".json"))) # <<>>

\* C14: load_state returns a state only for a pointer file that exists and
\* names an existing model file with the prefix model_iso_ (mode one_class) or
\* model_xgb_ (mode supervised) whose feature_names_<version>.json exists and
\* yields a non-empty list, from a bare array or from the feature_names key of
\* an object; the state holds that list.  In every other case the call raises
\* and no state, whole or partial, is stored or returned.
C14_LoadOnlyWellFormed ==
    [][\A t \in Threads :
        /\ (pc[t] = "ld_finish" /\ pc'[t] # "ld_finish" /\ heap' # heap) =>
              /\ latestExists
              /\ WellFormed(heap'[Len(heap')].latest)
              /\ heap'[Len(heap')].mode =
                    (IF heap'[Len(heap')].latest.prefix = "model_iso_"
                     THEN "one_class" ELSE "supervised")
              /\ heap'[Len(heap')].feature_names =
                    NamesIn(FeatureNamesJson(
                        File("feature_names_", heap'[Len(heap')].latest.ver, ".json")))
        /\ (pc[t] = "ld_read" /\ pc'[t] # "ld_read"
              /\ ~(latestExists /\ WellFormed(latestText))) =>
              /\ result'[t].kind = "error"
              /\ heap' = heap /\ state' = state /\ snap'[t] = snap[t]
              /\ bundle'[t] = NoBundle]_vars

\* A state loaded from a feature-name file in the object form is in use, and
\* the pointer has since been rewritten to a bundle whose feature-name file is
\* an object without the feature_names key: the reload has raised ValueError.
C14_Witness ==
    \E t \in Threads :
        /\ state # 0
        /\ FeatureNamesJson(File("feature_names_", heap[state].latest.ver, ".json")).type
              = "object"
        /\ latestText = File("model_iso_", "v9", ".pkl")
        /\ pc[t] = "done"
        /\ result[t] = Error(Exc("ValueError", NoCause))

\* The companion files of the bundle a pointer text names.
ScalerOf(text) == File("scaler_", text.ver, ".pkl")
CalibratorOf(text) == File("calibrator_", text.ver, ".pkl")

\* What load_state needs of a bundle: a well-formed pointer text and, for a
\* supervised bundle, a model file that gives a Booster.
Loads(text) ==
    /\ WellFormed(text)
    /\ text.prefix = "model_xgb_" => ModelClass(text) = "Booster"

\* C15: a bundle loads whether or not its scaler and calibrator files exist; the
\* scaler is loaded exactly when its file exists, the calibrator exactly when
\* the bundle is supervised and its file exists; model_info reports has_scaler
\* and has_calibrator true exactly when the state it reads holds the component,
\* so has_calibrator is false for every one_class bundle.
C15_OptionalCompanions ==
    [][\A t \in Threads :
        /\ (pc[t] = "ld_read" /\ pc'[t] # "ld_read" /\ latestExists /\ Loads(latestText)) =>
              /\ pc'[t] = "ld_finish"
              /\ bundle'[t].ok
              /\ bundle'[t].scaler # None <=> ScalerOf(latestText) \in ModelDirFiles
              /\ bundle'[t].calibrator # None <=>
                    (latestText.prefix = "model_xgb_"
                        /\ CalibratorOf(latestText) \in ModelDirFiles)
        /\ (pc[t] # "done" /\ pc'[t] = "done" /\ result'[t].kind = "model_info") =>
              /\ result'[t].has_scaler = (heap'[state'].scaler # None)
              /\ result'[t].has_calibrator = (heap'[state'].calibrator # None)
              /\ result'[t].mode = "one_class" => ~result'[t].has_calibrator]_vars

\* model_info has answered for the bundle model_iso_v2, whose directory holds
\* scaler_v2 and calibrator_v2: one_class, has_scaler, no calibrator.
C15_Witness ==
    \E t \in Threads :
        /\ pc[t] = "done"
        /\ result[t].kind = "model_info"
        /\ result[t].latest = File("model_iso_", "v2", ".pkl")
        /\ CalibratorOf(result[t].latest) \in ModelDirFiles
        /\ result[t].mode = "one_class"
        /\ result[t].has_scaler
        /\ ~result[t].has_calibrator

\* A supervised bundle whose model file and feature names are in order.
SupervisedText(text) == WellFormed(text) /\ text.prefix = "model_xgb_"

\* C16 as stated: in supervised mode the load succeeds for a model file of
\* either form, a native serialized booster or a pickled object that wraps
\* the booster.
C16_BothFormsAccepted ==
    [][\A t \in Threads :
        (pc[t] = "ld_read" /\ pc'[t] # "ld_read" /\ latestExists
            /\ SupervisedText(latestText)) =>
                pc'[t] = "ld_finish" /\ bundle'[t].ok]_vars

\* C16, amended: in supervised mode the load succeeds for a native serialized
\* booster (.json, .ubj, .bin) and for a pickle whose object is itself a
\* Booster; a pickle of any other object, a wrapper around a booster included,
\* raises TypeError.  The model of every supervised state is a Booster.
C16_BoosterOnly ==
    [][\A t \in Threads :
        /\ (pc[t] = "ld_read" /\ pc'[t] # "ld_read" /\ latestExists
              /\ SupervisedText(latestText)) =>
                IF latestText.ext \in NativeSuffixes \/ Unpickled(latestText) = "Booster"
                THEN pc'[t] = "ld_finish" /\ bundle'[t].ok
                     /\ bundle'[t].model.file = latestText
                ELSE result'[t] = Error(Exc("TypeError", NoCause)) /\ heap' = heap
        /\ (pc[t] = "ld_finish" /\ heap' # heap
              /\ heap'[Len(heap')].mode = "supervised") =>
                \/ heap'[Len(heap')].model.file.ext \in NativeSuffixes
                \/ Unpickled(heap'[Len(heap')].model.file) = "Booster"]_vars

\* A supervised state loaded from a pickled Booster is in use, and the reload
\* of a bundle whose pickle holds a wrapper object has raised TypeError.
C16_Witness ==
    \E t \in Threads :
        /\ state # 0
        /\ heap[state].mode = "supervised"
        /\ heap[state].model.file.ext = ".pkl"
        /\ latestText = File("model_xgb_", "v8", ".pkl")
        /\ pc[t] = "done"
        /\ result[t] = Error(Exc("TypeError", NoCause))

\* The feature vector without the features the artifact's list does not name.
Named(features, names) ==
    [key \in DOMAIN features \cap {names[i] : i \in DOMAIN names} |-> features[key]]

\* The score the state parts u give for the model input X_model.
ScoreWith(mode, u, X_model) ==
    IF mode = "one_class" THEN Clip(decision_function(u.model, X_model) + 50, 0, 100)
    ELSE Clip(IF u.calibrator # None THEN predict_proba(u.calibrator, X_model)
              ELSE predict(u.model, X_model), 0, 100)

\* C17: the row given to the scaler and the model has one entry per name of the
\* artifact's feature-name list, in the list's order; the entry is the vector's
\* value for the name if the vector has it and NaN otherwise; a vector that
\* lacks a name is scored all the same (a read of a cached row always gives a
\* prediction), and the score is the one the vector without its unnamed
\* features gets.
C17_AlignedInput ==
    [][\A t \in Threads :
        /\ (pc[t] \in Scoring /\ pc'[t] = "done" /\ result'[t].kind = "prediction") =>
              /\ DOMAIN result'[t].used.x = DOMAIN result'[t].used.feature_names
              /\ \A i \in DOMAIN result'[t].used.feature_names :
                    result'[t].used.x[i] =
                        IF result'[t].used.feature_names[i] \in DOMAIN result'[t].used.raw
                        THEN result'[t].used.raw[result'[t].used.feature_names[i]]
                        ELSE NaN
              /\ result'[t].used.x_model =
                    (IF result'[t].used.scaler # None
                     THEN Transform(result'[t].used.scaler, result'[t].used.x)
                     ELSE result'[t].used.x)
              /\ result'[t].score =
                    ScoreWith(result'[t].mode, result'[t].used,
                              ScaledInput(result'[t].used,
                                          Align(Named(result'[t].used.raw,
                                                      result'[t].used.feature_names),
                                                result'[t].used.feature_names)))
        /\ (pc[t] = "pt_read" /\ pc'[t] = "done"
              /\ LightcurveStore(arg'[t].tic_id) # NoLightcurve
              /\ cache[arg'[t].tic_id] # NoRow) =>
                    result'[t].kind = "prediction"]_vars

\* A prediction from a vector that lacks a name of the list (its entry is NaN)
\* and has a feature the list does not name.
C17_Witness ==
    \E t \in Threads :
        /\ pc[t] = "done"
        /\ result[t].kind = "prediction"
        /\ \E i \in DOMAIN result[t].used.feature_names :
              /\ result[t].used.feature_names[i] \notin DOMAIN result[t].used.raw
              /\ IsNaN(result[t].used.x[i])
        /\ \E key \in DOMAIN result[t].used.raw :
              /\ \A i \in DOMAIN result[t].used.feature_names :
                    result[t].used.feature_names[i] # key
              /\ ~IsNaN(result[t].used.raw[key])

\* C18: when the light curve of the TIC is in the store (it was not fetched in
\* this request) and a cached feature row exists, predict_by_tic extracts no
\* features: it scores the cached row as it is with the state its refresh
\* returned, whatever bundle or light curve the row was computed from, reports
\* cache_hit = true and leaves the cache as it was.
C18_CacheTrusted ==
    [][\A t \in Threads :
        (/\ pc[t] = "pt_read" /\ pc'[t] # "pt_read"
         /\ LightcurveStore(arg'[t].tic_id) # NoLightcurve
         /\ cache[arg'[t].tic_id] # NoRow) =>
            /\ pc'[t] = "done"
            /\ result'[t].kind = "prediction"
            /\ result'[t].tic_id = arg'[t].tic_id
            /\ result'[t].used.raw = cache[arg'[t].tic_id]
            /\ result'[t].used.model = heap[snap[t]].model
            /\ result'[t].used.feature_names = heap[snap[t]].feature_names
            /\ result'[t].used.x = Align(cache[arg'[t].tic_id], heap[snap[t]].feature_names)
            /\ result'[t].warnings = <<>>
            /\ result'[t].meta.cache_hit
            /\ ~result'[t].meta.auto_fetch
            /\ cache' = cache]_vars

\* A row computed and cached by a call scored under one load has been scored,
\* as a cache hit, by the state of a later load.
C18_Witness ==
    \E t \in Threads :
        /\ pc[t] = "done"
        /\ op[t] = "predict_by_tic"
        /\ result[t].kind = "prediction"
        /\ result[t].meta.cache_hit
        /\ last.op = "predict_by_tic"
        /\ last.arg = arg[t]
        /\ ~last.cache_hit
        /\ last.load # result[t].used.model.load
        /\ heap[last.load].latest # heap[result[t].used.model.load].latest

-----------------------------------------------------------------------------
(* Properties of the clipping step (SpecBLS).                                *)

\* The finite entries of a sample in time order: what _five_sigma_clip is given.
Conditioned(s) == SortByTime(FiniteFilter(s.blocks, s.has_err))

\* |flux - median| <= 5 * 1.4826 * MAD for block b, with twice the median and
\* four times the MAD.
WithinThreshold(b, med2, mad4) ==
    20000 * Abs(2 * b.flux.v - med2) <= 74130 * mad4

\* |flux - median| = 5 * 1.4826 * MAD
OnThreshold(b, med2, mad4) ==
    20000 * Abs(2 * b.flux.v - med2) = 74130 * mad4

\* What the claim says of the clipping of the entries `before`, given their
\* median, their MAD and the outcome of the call.
ClippingAsClaimed(before, clip, med2, mad4, out) ==
    /\ mad4 = 0 => (clip.blocks = before /\ clip.num = clip.den)
    /\ mad4 # 0 =>
          /\ clip.blocks = SelectSeq(before, LAMBDA b : WithinThreshold(b, med2, mad4))
          /\ clip.num = Size(clip.blocks)
          /\ clip.den = Size(before)
    /\ \A i \in DOMAIN clip.blocks : \A j \in DOMAIN clip.blocks :
          i < j => clip.blocks[i].time.v <= clip.blocks[j].time.v
    /\ \A i \in DOMAIN clip.blocks : \E j \in DOMAIN before : clip.blocks[i] = before[j]
    /\ out.kind = "features" =>
          /\ out.features["data_fraction_kept"] = Fin((1000 * clip.num) \div clip.den)
          /\ (\E i \in DOMAIN out.warnings : out.warnings[i] = "aggressive_clipping")
                <=> 10 * clip.num < 8 * clip.den

\* C19: when the MAD of the flux is zero the clipping removes nothing and the
\* kept fraction is exactly 1; otherwise exactly the entries with
\* |flux - median| <= 5 * 1.4826 * MAD are kept, those on the threshold
\* included; every kept entry keeps its own time, flux and flux_err and the
\* entries stay in time order; the kept fraction is the kept count over the
\* count before clipping; a result carries 'aggressive_clipping' if and only
\* if the fraction is below 0.8.
C19_Clipping ==
    (outcome # NoOutcome /\ ~TooFew(FiniteCount(sample))) =>
        \A before \in {Conditioned(sample)} :
            \A med2 \in {Median2(FluxItems(before))} :
                \A mad4 \in {Median2(DeviationsFrom(before, med2))} :
                    ClippingAsClaimed(before, _five_sigma_clip(before), med2, mad4, outcome)

\* Features were built from a sample with a non-zero MAD that has an entry
\* exactly on the clipping threshold: it is kept, and the fraction is 1.
C19_Witness ==
    /\ outcome.kind = "features"
    /\ ~TooFew(FiniteCount(sample))
    /\ \E before \in {Conditioned(sample)} :
        \E med2 \in {Median2(FluxItems(before))} :
            \E mad4 \in {Median2(DeviationsFrom(before, med2))} :
                /\ mad4 # 0
                /\ \E i \in DOMAIN before : OnThreshold(before[i], med2, mad4)
                /\ outcome.features["data_fraction_kept"] = Fin(1000)

-----------------------------------------------------------------------------
(* Properties of the derived features (SpecDerive).                          *)

\* baseline / period in thousandths, for a positive period.
TransitsOver(baseline, period) == (1000 * baseline) \div period

\* C20: with a best period <= 0 the features are built without an exception,
\* with duty_cycle = 0 and n_transits = 1.0; with a period > 0, duty_cycle is
\* duration / period and n_transits is max((last_time - first_time) / period,
\* 1.0); n_transits is never below 1.0.  (Ratios in thousandths, the duration
\* in hours.)
C20_DerivedFeatures ==
    outcome # NoOutcome =>
        /\ outcome.kind = "features"
        /\ outcome.features["n_transits"].v >= 1000
        /\ IF sample.fit.period_days.v <= 0
           THEN /\ outcome.features["duty_cycle"] = Fin(0)
                /\ outcome.features["n_transits"] = Fin(1000)
           ELSE /\ outcome.features["duty_cycle"] =
                      Fin((1000 * sample.fit.duration_hours.v)
                              \div (24 * sample.fit.period_days.v))
                /\ \E n \in {TransitsOver(sample.blocks[2].time.v - sample.blocks[1].time.v,
                                          sample.fit.period_days.v)} :
                      outcome.features["n_transits"] = Fin(IF n > 1000 THEN n ELSE 1000)

\* Features built for a best period of 0 over a baseline of several days:
\* duty_cycle is 0 and n_transits is 1.0.
C20_Witness ==
    /\ outcome.kind = "features"
    /\ sample.fit.period_days.v = 0
    /\ sample.blocks[2].time.v - sample.blocks[1].time.v > 1
    /\ outcome.features["duty_cycle"] = Fin(0)
    /\ outcome.features["n_transits"] = Fin(1000)

-----------------------------------------------------------------------------
(* Properties of the odd/even statistic (SpecParity).                        *)

\* The in-transit samples whose transit number has the given parity.
Numbered(parity) ==
    {i \in DOMAIN sample.points :
        /\ transit_mask(sample.points[i].time, sample.period, sample.duration, sample.t0)
        /\ transit_numbers(sample.points[i].time, sample.t0, sample.period) % 2 = parity}

DepthOver(top, bottom) ==
    (1000 * Abs(FluxSum(sample.points, top)) * Cardinality(bottom))
        \div (Cardinality(top) * Abs(FluxSum(sample.points, bottom)))

\* C23: when both parity buckets hold samples and the depth of the samples
\* with an even transit number is not zero, odd_even_depth_ratio is the depth
\* of the in-transit samples with an odd transit number divided by the depth
\* of those with an even transit number (depth: abs of the mean normalised
\* flux).
C23_OddOverEven ==
    outcome.kind = "stats" /\ Numbered(0) # {} /\ Numbered(1) # {}
        /\ FluxSum(sample.points, Numbered(0)) # 0
        => outcome.odd_even_depth_ratio = Fin(DepthOver(Numbered(1), Numbered(0)))

\* The transit event a sample lies in: the centres epoch + k * period within
\* duration / 2 of its time.
EventsOf(i) ==
    {k \in -(MaxTime + 1)..(MaxTime + 1) :
        2 * Abs(sample.points[i].time - sample.t0 - k * sample.period) < sample.duration}

\* C27: the in-transit samples of one transit event have the same transit
\* number, so each parity bucket holds whole transits.
C27_WholeTransits ==
    outcome.kind = "stats" /\ sample.period > 0 =>
        \A i, j \in Numbered(0) \cup Numbered(1) :
            EventsOf(i) \cap EventsOf(j) # {} =>
                transit_numbers(sample.points[i].time, sample.t0, sample.period)
                    = transit_numbers(sample.points[j].time, sample.t0, sample.period)

-----------------------------------------------------------------------------
(* Properties of the secondary statistic (SpecPower).                        *)

\* The largest power of a spectrum without NaN, and how often it occurs.
MaxPower(power) ==
    CHOOSE x \in {power[i].v : i \in DOMAIN power} :
        \A i \in DOMAIN power : power[i].v <= x
TimesAttained(power, x) == Cardinality({i \in DOMAIN power : power[i].v = x})

\* The second-highest power of a spectrum of two or more numbers: the largest
\* again if it occurs twice, else the largest of the others.
SecondHighest(power) ==
    IF TimesAttained(power, MaxPower(power)) > 1 THEN MaxPower(power)
    ELSE CHOOSE x \in {power[i].v : i \in DOMAIN power} \ {MaxPower(power)} :
            \A i \in DOMAIN power : power[i].v = MaxPower(power) \/ power[i].v <= x

-----------------------------------------------------------------------------
(* Properties of the HTTP endpoints (SpecHttp).                              *)

\* The handler of thread t ends in this step.
Ends(t) == pc[t] # "done" /\ pc'[t] = "done"

\* What the service call of thread t raised, or "" if it returned or was not
\* made.
RaisedBy(t) == IF result[t].kind = "error" THEN result[t].exc.type ELSE ""

-----------------------------------------------------------------------------
(* Properties of the pointer file and the snapshots (Spec).                  *)

\* C25: the model name in a loaded state and the modification time recorded
\* with it describe the same version of the pointer file, also when the file
\* is rewritten while load_state runs: a state that records the file's
\* current modification time names the file's current content.
C25_PointerVersion ==
    \A i \in DOMAIN heap :
        heap[i].latest_mtime = latestMtime => heap[i].latest = latestText

\* C26: under every interleaving of first calls of get_inference_service at
\* most one InferenceService is constructed and published, and every call
\* returns it: one thread constructs at a time, holding _service_lock, and
\* only while the singleton is unset; the singleton, once set, stays set; it
\* is set only by the constructing thread, whose load succeeded; a call passes
\* without constructing only when the singleton is set.  If the construction
\* raises, the singleton stays unset and the lock is released, and a call that
\* finds the singleton unset under the lock constructs again.
C26_OneSingleton ==
    [][/\ \A t, u \in Threads : ctor'[t] /\ ctor'[u] => t = u
       /\ \A t \in Threads : ctor'[t] => ~service' /\ serviceLock' = t
       /\ service => service'
       /\ ~service /\ service' =>
              \E t \in Threads :
                  ctor[t] /\ serviceLock = t /\ state' # 0 /\ serviceLock' = 0
       /\ \A t \in Threads :
              /\ pc[t] \in {"idle", "gs_lock"} /\ pc'[t] = "rf_lock" /\ ~ctor'[t]
                     => service
              /\ ctor[t] /\ pc'[t] = "done" =>
                     result'[t].kind = "error" /\ ~service' /\ serviceLock' = 0
              /\ pc[t] = "gs_lock" /\ pc'[t] # "gs_lock" /\ ~service =>
                     ctor'[t]]_vars

\* A construction has raised, the caller holds the error, the singleton is
\* unset, and another call has constructed again and is about to publish.
C26_Witness ==
    \E t, u \in Threads :
        /\ t # u
        /\ pc[u] = "done" /\ result[u].kind = "error"
        /\ ~service
        /\ ctor[t] /\ serviceLock = t /\ pc[t] = "ld_finish"

-----------------------------------------------------------------------------
(* Properties of the feature cache (SpecHttp).                               *)

\* C28: the feature cache changes only when predict_by_tic has extracted the
\* features of that TIC in the same request, and then that TIC's entry is the
\* extracted row, written before scoring (also when scoring raises); a request
\* that ends in InsufficientDataError, FeatureExtractionError or
\* LightcurveNotFoundError leaves the cache as it was; a request that fetched
\* the light curve does not read the cache, extracts, and on success replaces
\* the entry; predict_from_arrays neither reads nor writes the cache.
C28_CacheWrites ==
    [][/\ cache' # cache =>
            \E t \in Threads :
                /\ pc[t] = "pt_compute"
                /\ ComputeForTic(lightcurves[tic[t]]).ok
                /\ cache' = [cache EXCEPT
                               ![tic[t]] = ComputeForTic(lightcurves[tic[t]]).features]
       /\ \A t \in Threads :
            /\ pc[t] = "pt_compute" /\ pc'[t] = "done"
                   /\ ComputeForTic(lightcurves[tic[t]]).ok =>
                   cache'[tic[t]] = ComputeForTic(lightcurves[tic[t]]).features
            /\ Ends(t) /\ op[t] = "predict_by_tic" /\ result'[t].kind = "error"
                   /\ result'[t].exc.type \in {"InsufficientDataError",
                          "FeatureExtractionError", "LightcurveNotFoundError"} =>
                   cache' = cache
            /\ pc[t] = "pt_read" /\ lightcurves[arg'[t].tic_id] = NoLightcurve
                   /\ pc'[t] # "pt_read" =>
                   /\ cache' = cache
                   /\ pc'[t] = "pt_compute" <=> autoFetch'[t]
                   /\ pc'[t] = "done" =>
                          RaisedBy(t)' = "LightcurveNotFoundError"
            /\ pc[t] = "pt_compute" /\ autoFetch[t]
                   /\ result'[t].kind = "prediction" =>
                   /\ result'[t].used.raw = ComputeForTic(lightcurves[tic[t]]).features
                   /\ ~result'[t].meta.cache_hit
                   /\ result'[t].meta.auto_fetch
                   /\ cache'[tic[t]] = result'[t].used.raw
            /\ pc[t] = "pa_score" /\ pc'[t] = "done" =>
                   /\ cache' = cache
                   /\ result'[t].kind = "prediction" =>
                          /\ result'[t].used.raw =
                                 _compute_features(arg'[t].lc, arg'[t].meta).features
                          /\ ~result'[t].meta.cache_hit]_vars

\* A request has fetched the missing light curve of a TIC that has a cached
\* row left by an earlier run, has not scored that row, and is about to
\* extract the features that replace it.
C28_Witness ==
    \E t \in Threads :
        /\ pc[t] = "pt_compute"
        /\ autoFetch[t]
        /\ cache[tic[t]] = StaleRow
        /\ ComputeForTic(lightcurves[tic[t]]).ok

-----------------------------------------------------------------------------
(* Properties of the warnings (SpecScore).                                   *)

\* C29: the warnings of predict_by_tic do not depend on whether the features
\* were computed or read from the cache: when the request before computed the
\* features of the TIC and returned 'aggressive_clipping', a request for the
\* same TIC that is served from the cache returns it too.
C29_WarningsKept ==
    \A t \in Threads :
        (/\ pc[t] = "done"
         /\ op[t] = "predict_by_tic"
         /\ result[t].kind = "prediction"
         /\ result[t].meta.cache_hit
         /\ last.op = "predict_by_tic"
         /\ last.arg = arg[t]
         /\ ~last.cache_hit
         /\ \E i \in DOMAIN last.warnings : last.warnings[i] = "aggressive_clipping") =>
            \E i \in DOMAIN result[t].warnings :
                result[t].warnings[i] = "aggressive_clipping"

-----------------------------------------------------------------------------
(* Properties of the order of snapshots (Spec).                              *)

\* C30: the snapshots handed to requests never go backwards.  The pointer
\* file's modification time never decreases in the model.  The service's
\* state is only ever replaced by one that records a modification time at
\* least as large, and a state dict is never changed; the state refresh()
\* hands to a request is the service's state at that moment; so it records a
\* modification time at least as large as every snapshot handed out before
\* it, those of the requests still running included.
C30_NeverBackwards ==
    [][/\ state # 0 /\ state' # 0 =>
              heap'[state'].latest_mtime >= heap[state].latest_mtime
       /\ \A i \in DOMAIN heap : heap'[i] = heap[i]
       /\ \A t \in Threads :
              snap[t] = 0 /\ snap'[t] # 0 =>
                  /\ snap'[t] = state'
                  /\ \A u \in Threads :
                         snap[u] # 0 =>
                             heap'[snap'[t]].latest_mtime >= heap[snap[u]].latest_mtime]_vars

\* Two requests hold snapshots of different loads, one recording a later
\* modification time of the pointer file than the other.
C30_Witness ==
    \E t, u \in Threads :
        /\ snap[t] # 0 /\ snap[u] # 0
        /\ heap[snap[t]].latest_mtime > heap[snap[u]].latest_mtime

=============================================================================
